---- MODULE Spec2Model ----
(***************************************************************************)
(* PDF accessibility engine: the rule engine (pdf_engine/analyzer.py), the *)
(* scorer (get_score), the remediator (pdf_engine/remediator.py) and the   *)
(* /analyze and /remediate routes of the web layer (app.py).               *)
(*                                                                         *)
(* A document is a record of what the Document Accessor (PyMuPDF) exposes: *)
(* metadata, catalog keys, outline, pages (images, text blocks, fills,     *)
(* widgets, links, words, tab order) and the cross-reference table.        *)
(* Python strings whose characters matter (title, language, link text) are *)
(* sequences of one-character strings; opaque values are TLA+ strings.     *)
(***************************************************************************)
EXTENDS Integers, Sequences, FiniteSets, TLC

VARIABLES
    file,       \* the document stored at pdf_path
    a_open,     \* TRUE while a PDFAccessibilityAnalyzer holds a handle
    a_doc,      \* analyzer.doc : the document as read by fitz.open
    issues,     \* analyzer.issues
    counter,    \* analyzer._counter
    analysed,   \* TRUE when issues is what analyze() returned for the current file
    returned,   \* history: the results analyze() returned since the file last changed
    score,      \* last value returned by get_score, NoScore before
    lastFix,    \* history: the last remediation call and its argument
    result,     \* outcome of the last analyze / render / dimensions / OCR / web call
    ocr_available,  \* remediator._OCR_AVAILABLE : pytesseract and PIL import
    session,    \* app._sessions[sid], NoSession before the upload
    report,     \* what generate_accessibility_report last wrote, NoReport before
    reqs        \* the /remediate requests being served, each with its locals

vars == <<file, a_open, a_doc, issues, counter, analysed, returned, score, lastFix,
          result, ocr_available, session, report, reqs>>

----------------------------------------------------------------------------
(* Bounds *)

MaxTitleLen == 2      \* longest title / fix_title argument
MaxPages == 2         \* pages of a document of the metadata specification
MaxToc == 1           \* outline entries
MaxImages == 2        \* images on the page of the image specification
MaxSpans == 2         \* text runs on a page of the contrast specification
MaxExtra == 1         \* arbitrary findings appended to a scorer input
MaxRuns == 2          \* analyze() results remembered per document state
ManyFindings == 9998  \* findings already added by a long analysis run
MaxAdds == 2          \* further findings added to a run
MaxLinks == 2         \* link annotations on a page of the link specification
MaxFindings == 2      \* findings handed to the report generator
MaxReqs == 2          \* /remediate requests served at the same time

----------------------------------------------------------------------------
(* Python string helpers *)

None == <<"None">>                 \* Python None where a str is expected
Chars == {" ", "a"}
Null == <<"n", "u", "l", "l">>     \* the PDF null value as returned by xref_get_key

RECURSIVE StrsOfLen(_, _)
StrsOfLen(cs, n) ==
    IF n = 0 THEN {<<>>}
    ELSE {Append(s, c) : s \in StrsOfLen(cs, n - 1), c \in cs}

StrsUpTo(cs, n) == UNION {StrsOfLen(cs, k) : k \in 0..n}

OrEmpty(x) == IF x = None THEN <<>> ELSE x      \* (x or "")

IsSpace(c) == c = " "

RECURSIVE LStrip(_)
LStrip(s) == IF s # <<>> /\ IsSpace(Head(s)) THEN LStrip(Tail(s)) ELSE s

RECURSIVE RStrip(_)
RStrip(s) ==
    IF s # <<>> /\ IsSpace(s[Len(s)]) THEN RStrip(SubSeq(s, 1, Len(s) - 1)) ELSE s

Strip(s) == RStrip(LStrip(s))                   \* str.strip()

RECURSIVE LStripSet(_, _)
LStripSet(s, cs) == IF s # <<>> /\ Head(s) \in cs THEN LStripSet(Tail(s), cs) ELSE s

RECURSIVE RStripSet(_, _)
RStripSet(s, cs) ==
    IF s # <<>> /\ s[Len(s)] \in cs THEN RStripSet(SubSeq(s, 1, Len(s) - 1), cs) ELSE s

StripSet(s, cs) == RStripSet(LStripSet(s, cs), cs)   \* str.strip(chars)

----------------------------------------------------------------------------
(* Findings *)

CheckOrder ==
    <<"2.4.2", "3.1.1", "1.3.1", "2.4.5", "1.1.1", "1.4.3", "4.1.2", "2.4.4", "2.4.6", "1.3.2">>

Criteria == {CheckOrder[i] : i \in 1..Len(CheckOrder)}

Severities == {"critical", "serious", "moderate", "minor"}

\* AccessibilityIssue without its identifier: the keyword arguments of _add
Proto(c, sev, pg, ttl, fix, etype, info) ==
    [wcag_criterion |-> c, severity |-> sev, page |-> pg, title |-> ttl,
     auto_fixable |-> fix, etype |-> etype, info |-> info]

RECURSIVE Digits(_)
Digits(n) == IF n < 10 THEN <<n>> ELSE Append(Digits(n \div 10), n % 10)

RECURSIVE ZeroPad(_, _)
ZeroPad(ds, w) == IF Len(ds) >= w THEN ds ELSE ZeroPad(<<0>> \o ds, w)

IdWidth == 4

\* f"issue-{self._counter:04d}" : the digits after the constant prefix "issue-"
new_id(ctr) == ZeroPad(Digits(ctr), IdWidth)

\* _add : take the next identifier and append the issue
add(st, p) ==
    [issues |-> Append(st.issues,
                       [issue_id |-> new_id(st.counter + 1),
                        wcag_criterion |-> p.wcag_criterion, severity |-> p.severity,
                        page |-> p.page, title |-> p.title,
                        auto_fixable |-> p.auto_fixable, etype |-> p.etype,
                        info |-> p.info]),
     counter |-> st.counter + 1]

RECURSIVE add_all(_, _)
add_all(st, ps) == IF ps = <<>> THEN st ELSE add_all(add(st, Head(ps)), Tail(ps))

Count(iss, c) == Cardinality({i \in 1..Len(iss) : iss[i].wcag_criterion = c})

----------------------------------------------------------------------------
(* Catalog and cross-reference lookups *)

\* _xref_val applied to doc.xref_get_key(...) : the value part
xref_val(raw) == raw

\* doc.xref_get_key(cat, "Lang") : the text of the entry, "null" when the key
\* is missing (a text string comes back decoded, without its delimiters)
xref_get_key(entry) == IF entry = None THEN Null ELSE entry

\* variant: only the structure-tree root is consulted
is_tagged_root_only(doc) ==
    /\ "catalog" \notin doc.faults
    /\ xref_val(doc.structTreeRoot) \notin {"", "null"}

\* _is_tagged : a catalog lookup that raises gives False
is_tagged(doc) ==
    /\ "catalog" \notin doc.faults
    /\ \/ xref_val(doc.structTreeRoot) \notin {"", "null"}
       \/ xref_val(doc.markInfo) \notin {"", "null"}

----------------------------------------------------------------------------
(* Check: document title (WCAG 2.4.2) *)

\* variant: the title is tested without stripping whitespace
check_document_title_nostrip(doc) ==
    IF OrEmpty(doc.title) = <<>>
    THEN <<Proto("2.4.2", "serious", 0, "Missing Document Title", TRUE,
                 "metadata", <<>>)>>
    ELSE <<>>

check_document_title(doc) ==
    LET title == Strip(OrEmpty(doc.title))
    IN  IF title = <<>>
        THEN <<Proto("2.4.2", "serious", 0, "Missing Document Title", TRUE,
                     "metadata", <<>>)>>
        ELSE <<>>

(* Check: document language (WCAG 3.1.1) *)

\* variant: the value is used as read, parentheses are not stripped
check_document_language_nostrip(doc) ==
    LET raw == xref_val(xref_get_key(doc.lang))
        lang == IF "catalog" \notin doc.faults /\ raw # <<>> /\ raw \notin {<<>>, Null}
                THEN raw ELSE <<>>
    IN  IF lang = <<>>
        THEN <<Proto("3.1.1", "serious", 0, "Missing Document Language", TRUE,
                     "metadata", <<>>)>>
        ELSE <<>>

check_document_language(doc) ==
    LET raw == xref_val(xref_get_key(doc.lang))
        lang == IF "catalog" \notin doc.faults /\ raw # <<>> /\ raw \notin {<<>>, Null}
                THEN StripSet(raw, {"(", ")"})
                ELSE <<>>
    IN  IF lang = <<>>
        THEN <<Proto("3.1.1", "serious", 0, "Missing Document Language", TRUE,
                     "metadata", <<>>)>>
        ELSE <<>>

(* Check: tagged PDF (WCAG 1.3.1) *)

check_tagged_pdf(doc) ==
    IF ~is_tagged(doc)
    THEN <<Proto("1.3.1", "critical", 0, "PDF is Not Tagged", FALSE,
                 "document_structure", <<>>)>>
    ELSE <<>>

(* Check: bookmarks (WCAG 2.4.5) *)

page_count(doc) == Len(doc.pages)

\* variant: the page-count test admits single-page documents
check_bookmarks_any_pages(doc) ==
    IF page_count(doc) > 0 /\ doc.toc = 0
    THEN <<Proto("2.4.5", "moderate", 0, "No Bookmarks / Navigation", FALSE,
                 "navigation", <<page_count(doc)>>)>>
    ELSE <<>>

check_bookmarks(doc) ==
    IF page_count(doc) > 1 /\ doc.toc = 0
    THEN <<Proto("2.4.5", "moderate", 0, "No Bookmarks / Navigation", FALSE,
                 "navigation", <<page_count(doc)>>)>>
    ELSE <<>>

(* Check: images without alternative text (WCAG 1.1.1) *)

MinImageSize == 16

\* variant: an image is skipped when either dimension is below the minimum
is_tiny_image_either(width, height) == width < MinImageSize \/ height < MinImageSize

\* the "tiny image" test of the image loop
is_tiny_image(width, height) == width < MinImageSize /\ height < MinImageSize

\* _collect_figure_alt_xrefs : doc.xref_get_key returns a (type, value) pair,
\* so '"/Figure" not in s_type' is a membership test on the pair and the
\* tests on alt and k_val are tests on a non-empty pair, which always pass
collect_figure_alt_xrefs(doc) ==
    {doc.objs[i].xref : i \in {j \in 1..Len(doc.objs) : doc.objs[j].S = "/Figure"}}

\* variant: the severity ignores the tagging state
image_severity_always_critical(tagged) == "critical"

image_severity(tagged) == IF tagged THEN "serious" ELSE "critical"

\* page.get_image_rects(xref) raises: it is called for the first image of the
\* page that is not tiny, outside any try
image_rects_raise(page) ==
    /\ "image_rects" \in page.faults
    /\ \E i \in 1..Len(page.images) :
           ~is_tiny_image(page.images[i].width, page.images[i].height)

\* the findings of one page, up to the image whose lookup raises
RECURSIVE images_of_page(_, _, _, _, _)
images_of_page(imgs, pn, tagged, alt_xrefs, rects_fail) ==
    IF imgs = <<>> THEN <<>>
    ELSE LET img == Head(imgs)
             rest == images_of_page(Tail(imgs), pn, tagged, alt_xrefs, rects_fail)
         IN  IF is_tiny_image(img.width, img.height) THEN rest
             ELSE IF rects_fail THEN <<>>
             ELSE IF (~tagged) \/ img.xref \notin alt_xrefs
             THEN <<Proto("1.1.1", image_severity(tagged), pn,
                          "Image Missing Alternative Text", FALSE, "image",
                          <<img.xref, img.width, img.height>>)>> \o rest
             ELSE rest

RECURSIVE images_from(_, _, _, _)
images_from(doc, pn, tagged, alt_xrefs) ==
    IF pn > page_count(doc) THEN <<>>
    ELSE IF image_rects_raise(doc.pages[pn])
    THEN images_of_page(doc.pages[pn].images, pn, tagged, alt_xrefs, TRUE)
    ELSE images_of_page(doc.pages[pn].images, pn, tagged, alt_xrefs, FALSE)
         \o images_from(doc, pn + 1, tagged, alt_xrefs)

\* the image check raises to analyze
check_images_raises(doc) ==
    \E pn \in 1..page_count(doc) : image_rects_raise(doc.pages[pn])

check_images_alt_text(doc) ==
    LET tagged == is_tagged(doc)
        alt_xrefs == IF tagged THEN collect_figure_alt_xrefs(doc) ELSE {}
    IN  images_from(doc, 1, tagged, alt_xrefs)

----------------------------------------------------------------------------
(* Geometry of the Document Accessor: rectangles <<x0, y0, x1, y1>> *)

RectIsEmpty(r) == r[1] >= r[3] \/ r[2] >= r[4]

Max2(a, b) == IF a >= b THEN a ELSE b
Min2(a, b) == IF a <= b THEN a ELSE b

RectIntersects(r, q) ==
    /\ ~RectIsEmpty(r)
    /\ ~RectIsEmpty(q)
    /\ ~RectIsEmpty(<<Max2(r[1], q[1]), Max2(r[2], q[2]), Min2(r[3], q[3]), Min2(r[4], q[4])>>)

RectContains(r, q) == r[1] <= q[1] /\ q[1] <= q[3] /\ q[3] <= r[3]
                      /\ r[2] <= q[2] /\ q[2] <= q[4] /\ q[4] <= r[4]

----------------------------------------------------------------------------
(* Check: colour contrast (WCAG 1.4.3) *)

\* _lin(c) * 100000 for c in 0..255, rounded
LinTable ==
<<
    0, 30, 61, 91, 121, 152, 182, 212, 243, 273, 304, 335, 368, 402, 439, 478,
    518, 561, 605, 651, 700, 750, 802, 857, 913, 972, 1033, 1096, 1161, 1229, 1298, 1370,
    1444, 1521, 1600, 1681, 1764, 1850, 1938, 2029, 2122, 2217, 2315, 2416, 2519, 2624, 2732, 2843,
    2956, 3071, 3190, 3310, 3434, 3560, 3689, 3820, 3955, 4092, 4231, 4374, 4519, 4667, 4817, 4971,
    5127, 5286, 5448, 5613, 5781, 5951, 6125, 6301, 6480, 6663, 6848, 7036, 7227, 7421, 7619, 7819,
    8022, 8228, 8438, 8650, 8866, 9084, 9306, 9531, 9759, 9990, 10224, 10462, 10702, 10946, 11193, 11444,
    11697, 11954, 12214, 12477, 12744, 13014, 13287, 13563, 13843, 14126, 14413, 14703, 14996, 15293, 15593, 15896,
    16203, 16513, 16827, 17144, 17465, 17789, 18116, 18447, 18782, 19120, 19462, 19807, 20156, 20508, 20864, 21223,
    21586, 21953, 22323, 22697, 23074, 23455, 23840, 24228, 24620, 25016, 25415, 25818, 26225, 26636, 27050, 27468,
    27889, 28315, 28744, 29177, 29614, 30054, 30499, 30947, 31399, 31855, 32314, 32778, 33245, 33716, 34191, 34670,
    35153, 35640, 36131, 36625, 37124, 37626, 38133, 38643, 39157, 39676, 40198, 40724, 41254, 41789, 42327, 42869,
    43415, 43966, 44520, 45079, 45641, 46208, 46778, 47353, 47932, 48515, 49102, 49693, 50289, 50888, 51492, 52100,
    52712, 53328, 53948, 54572, 55201, 55834, 56471, 57112, 57758, 58408, 59062, 59720, 60383, 61050, 61721, 62396,
    63076, 63760, 64448, 65141, 65837, 66539, 67244, 67954, 68669, 69387, 70110, 70838, 71569, 72306, 73046, 73791,
    74540, 75294, 76052, 76815, 77582, 78354, 79130, 79910, 80695, 81485, 82279, 83077, 83880, 84687, 85499, 86316,
    87137, 87962, 88792, 89627, 90466, 91310, 92158, 93011, 93869, 94731, 95597, 96469, 97345, 98225, 99110, 100000
>>

lin(c) == LinTable[c + 1]

\* _int_to_rgb
int_to_rgb(color) ==
    <<(color \div 65536) % 256, (color \div 256) % 256, color % 256>>

\* _luminance, scaled by 10^7
luminance(rgb) == (2126 * lin(rgb[1]) + 7152 * lin(rgb[2]) + 722 * lin(rgb[3])) \div 100

LumOffset == 500000      \* 0.05, scaled by 10^7

\* _contrast(l1, l2) < required, with required given in tenths
contrast_below(l1, l2, required10) ==
    LET lighter == IF l1 >= l2 THEN l1 ELSE l2
        darker == IF l1 >= l2 THEN l2 ELSE l1
    IN  10 * (lighter + LumOffset) < required10 * (darker + LumOffset)

\* int(fill[k] * 255), the fill component given in thousandths
fill_channel(f) == (f * 255) \div 1000

\* _get_background_fills : drawings without a fill or without a rect are skipped
RECURSIVE get_background_fills(_)
get_background_fills(drawings) ==
    IF drawings = <<>> THEN <<>>
    ELSE LET path == Head(drawings)
             rest == get_background_fills(Tail(drawings))
         IN  IF path.fill = <<>> \/ path.rect = <<>> THEN rest
             ELSE <<[rect |-> path.rect,
                     rgb |-> <<fill_channel(path.fill[1]), fill_channel(path.fill[2]),
                               fill_channel(path.fill[3])>>]>> \o rest

White == <<255, 255, 255>>

\* _background_at : the last fill that contains or intersects the text bbox
RECURSIVE background_from(_, _, _)
background_from(bbox, fills, bg) ==
    IF fills = <<>> THEN bg
    ELSE LET fill == Head(fills)
         IN  background_from(bbox, Tail(fills),
                 IF RectContains(fill.rect, bbox) \/ RectIntersects(fill.rect, bbox)
                 THEN fill.rgb ELSE bg)

background_at(bbox, fills) == background_from(bbox, fills, White)

MinTextSize == 8
LargeSize == 18
LargeBoldSize == 14
BoldFlag == 16           \* 1 << 4

is_large(size, flags) ==
    size >= LargeSize \/ (size >= LargeBoldSize /\ (flags \div BoldFlag) % 2 = 1)

required_ratio(size, flags) == IF is_large(size, flags) THEN 30 ELSE 45

\* the spans of the text blocks (type 0) of page.get_text("dict"), in order
RECURSIVE text_spans(_)
text_spans(blocks) ==
    IF blocks = <<>> THEN <<>>
    ELSE (IF Head(blocks).type = 0 THEN Head(blocks).spans ELSE <<>>)
         \o text_spans(Tail(blocks))

\* variant: no run is taken as seen before
dedup_never(key, seen) == FALSE

\* the dedup test: is the run's key already in seen
dedup_hit(key, seen) == key \in seen

\* one text run of _check_color_contrast; acc = [seen, out]
contrast_span(span, pn, bg_fills, acc) ==
    IF Strip(span.text) = <<>> THEN acc
    ELSE IF span.size < MinTextSize THEN acc
    ELSE LET rgb == int_to_rgb(span.color)
             bg == background_at(span.bbox, bg_fills)
             key == <<pn, span.color, bg>>
         IN  IF dedup_hit(key, acc.seen) THEN acc
             ELSE LET lum_text == luminance(rgb)
                      lum_bg == luminance(bg)
                      required == required_ratio(span.size, span.flags)
                  IN  IF contrast_below(lum_text, lum_bg, required)
                      THEN [seen |-> acc.seen \cup {key},
                            out |-> Append(acc.out,
                                Proto("1.4.3",
                                      IF contrast_below(lum_text, lum_bg, 30)
                                      THEN "serious" ELSE "moderate",
                                      pn, "Insufficient Colour Contrast", FALSE, "text",
                                      <<span.color, bg[1], bg[2], bg[3]>>))]
                      ELSE [seen |-> acc.seen \cup {key}, out |-> acc.out]

RECURSIVE contrast_spans(_, _, _, _)
contrast_spans(spans, pn, bg_fills, acc) ==
    IF spans = <<>> THEN acc
    ELSE contrast_spans(Tail(spans), pn, bg_fills,
                        contrast_span(Head(spans), pn, bg_fills, acc))

RECURSIVE contrast_from(_, _, _)
contrast_from(doc, pn, acc) ==
    IF pn > page_count(doc) THEN acc
    ELSE LET page == doc.pages[pn]
         IN  contrast_from(doc, pn + 1,
                 contrast_spans(text_spans(page.blocks), pn,
                                get_background_fills(page.drawings), acc))

check_color_contrast(doc) == contrast_from(doc, 1, [seen |-> {}, out |-> <<>>]).out

----------------------------------------------------------------------------
(* Check: form fields without labels (WCAG 4.1.2) *)

RECURSIVE widgets_of_page(_, _)
widgets_of_page(ws, pn) ==
    IF ws = <<>> THEN <<>>
    ELSE LET w == Head(ws)
             name == Strip(OrEmpty(w.field_name))
             label == Strip(OrEmpty(w.field_label))
             tooltip == Strip(OrEmpty(w.field_tooltip))
         IN  (IF name = <<>> /\ label = <<>> /\ tooltip = <<>>
              THEN <<Proto("4.1.2", "critical", pn, "Form Field Missing Accessible Name",
                           FALSE, "form_field", <<pn>>)>>
              ELSE <<>>) \o widgets_of_page(Tail(ws), pn)

RECURSIVE form_fields_from(_, _)
form_fields_from(doc, pn) ==
    IF pn > page_count(doc) THEN <<>>
    ELSE (IF "widgets" \in doc.pages[pn].faults
          THEN <<>>       \* page.widgets() raised: except Exception: pass
          ELSE widgets_of_page(doc.pages[pn].widgets, pn))
         \o form_fields_from(doc, pn + 1)

check_form_fields(doc) == form_fields_from(doc, 1)

----------------------------------------------------------------------------
(* Check: links with non-descriptive text (WCAG 2.4.4) *)

GENERIC_LINK_TEXTS ==
    {<<"c", "l", "i", "c", "k", " ", "h", "e", "r", "e">>,
     <<"h", "e", "r", "e">>,
     <<"r", "e", "a", "d", " ", "m", "o", "r", "e">>,
     <<"m", "o", "r", "e">>,
     <<"l", "i", "n", "k">>,
     <<"c", "l", "i", "c", "k">>,
     <<"t", "h", "i", "s">>,
     <<"s", "e", "e", " ", "h", "e", "r", "e">>,
     <<"g", "o">>,
     <<"s", "e", "e", " ", "m", "o", "r", "e">>,
     <<"f", "i", "n", "d", " ", "o", "u", "t", " ", "m", "o", "r", "e">>,
     <<"l", "e", "a", "r", "n", " ", "m", "o", "r", "e">>,
     <<"d", "e", "t", "a", "i", "l", "s">>,
     <<"i", "n", "f", "o">>,
     <<"i", "n", "f", "o", "r", "m", "a", "t", "i", "o", "n">>,
     <<"v", "i", "e", "w">>,
     <<"o", "p", "e", "n">>,
     <<"d", "o", "w", "n", "l", "o", "a", "d">>}

LinkMargin == 3

UpperToLower ==
    [c \in {"A", "C", "G", "H", "M"} |->
        CASE c = "A" -> "a" [] c = "C" -> "c" [] c = "G" -> "g"
          [] c = "H" -> "h" [] c = "M" -> "m"]

LowerChar(c) == IF c \in DOMAIN UpperToLower THEN UpperToLower[c] ELSE c

Lower(s) == [i \in 1..Len(s) |-> LowerChar(s[i])]     \* str.lower()

\* " ".join(w[4] for w in words if Rect(w[:4]).intersects(expanded))
RECURSIVE join_words(_, _)
join_words(words, expanded) ==
    IF words = <<>> THEN <<>>
    ELSE LET rest == join_words(Tail(words), expanded)
             w == Head(words)
         IN  IF RectIntersects(w.rect, expanded) THEN <<w.text>> \o rest ELSE rest

RECURSIVE join_with_space(_)
join_with_space(ws) ==
    IF ws = <<>> THEN <<>>
    ELSE IF Len(ws) = 1 THEN ws[1]
    ELSE ws[1] \o <<" ">> \o join_with_space(Tail(ws))

\* variant: the words are matched against the link rectangle itself
text_in_rect_exact(page, rect) == join_with_space(join_words(page.words, rect))

\* _text_in_rect
text_in_rect(page, rect) ==
    LET expanded == <<rect[1] - LinkMargin, rect[2] - LinkMargin,
                      rect[3] + LinkMargin, rect[4] + LinkMargin>>
    IN  join_with_space(join_words(page.words, expanded))

\* link.get("uri") or link.get("page") is None
link_has_no_target(link) ==
    (link.uri = None \/ link.uri = <<>>) /\ ~link.has_page

RECURSIVE links_of_page(_, _, _)
links_of_page(links, page, pn) ==
    IF links = <<>> THEN <<>>
    ELSE LET link == Head(links)
             rest == links_of_page(Tail(links), page, pn)
             link_text == Strip(text_in_rect(page, link.from))
             normalised == Lower(link_text)
         IN  IF link_has_no_target(link) THEN rest
             ELSE IF normalised \in GENERIC_LINK_TEXTS \/ normalised = <<>>
             THEN <<Proto("2.4.4", "moderate", pn, "Non-descriptive Link Text", FALSE,
                          "link", <<>>)>> \o rest
             ELSE rest

RECURSIVE links_from(_, _)
links_from(doc, pn) ==
    IF pn > page_count(doc) THEN <<>>
    ELSE links_of_page(doc.pages[pn].links, doc.pages[pn], pn) \o links_from(doc, pn + 1)

check_links(doc) == links_from(doc, 1)

----------------------------------------------------------------------------
(* Check: heading structure (WCAG 2.4.6) *)

HeadingTags == {"/H1", "/H2", "/H3", "/H4", "/H5", "/H6", "/H"}

HeadingScanLimit == 2000

\* doc.xref_length() : one more than the highest object number
xref_length(doc) == IF doc.objs = <<>> THEN 1 ELSE doc.objs[Len(doc.objs)].xref + 1

has_headings(doc) ==
    \E i \in 1..Len(doc.objs) :
        /\ doc.objs[i].xref < Min2(xref_length(doc), HeadingScanLimit)
        /\ doc.objs[i].S \in HeadingTags

check_heading_structure(doc) ==
    IF ~is_tagged(doc) THEN <<>>
    ELSE IF page_count(doc) < 2 THEN <<>>
    ELSE IF ~has_headings(doc)
    THEN <<Proto("2.4.6", "moderate", 0, "No Heading Structure Detected", FALSE,
                 "document_structure", <<>>)>>
    ELSE <<>>

(* Check: tab order (WCAG 1.3.2) *)

RECURSIVE tab_order_from(_, _)
tab_order_from(doc, pn) ==
    IF pn > page_count(doc) THEN <<>>
    ELSE IF "tabs" \in doc.pages[pn].faults
    THEN <<>>             \* the lookup raised: the try encloses the page loop
    ELSE LET tab_order == xref_val(doc.pages[pn].tabs)
         IN  (IF tab_order # "" /\ tab_order \notin {"", "null", "/S"}
              THEN <<Proto("1.3.2", "moderate", pn, "Tab Order Does Not Follow Structure",
                           FALSE, "tab_order", <<>>)>>
              ELSE <<>>) \o tab_order_from(doc, pn + 1)

\* variant: the pages are examined whether or not the document is tagged
check_tab_order_untagged(doc) == tab_order_from(doc, 1)

\* variant: the page loop ends at the first finding
check_tab_order_first(doc) ==
    IF ~is_tagged(doc) \/ tab_order_from(doc, 1) = <<>> THEN <<>>
    ELSE <<Head(tab_order_from(doc, 1))>>

check_tab_order(doc) == IF ~is_tagged(doc) THEN <<>> ELSE tab_order_from(doc, 1)

----------------------------------------------------------------------------
(* analyze and get_score *)

\* variant: the identifier counter is not reset
analyze_reset_keep_counter(iss, ctr) == [issues |-> <<>>, counter |-> ctr]

\* variant: the issue list of the previous run is kept
analyze_reset_keep_issues(iss, ctr) == [issues |-> iss, counter |-> 0]

\* the first two statements of analyze: self.issues = [] ; self._counter = 0
analyze_reset(iss, ctr) == [issues |-> <<>>, counter |-> 0]

\* variant: the link check runs before the form-field check
run_checks_links_early(doc) ==
    check_document_title(doc) \o check_document_language(doc)
    \o check_tagged_pdf(doc) \o check_bookmarks(doc)
    \o check_images_alt_text(doc) \o check_color_contrast(doc)
    \o check_links(doc) \o check_form_fields(doc)
    \o check_heading_structure(doc) \o check_tab_order(doc)

\* the ten checks, in the order analyze calls them; when the image check
\* raises, the checks after it are not run
run_checks(doc) ==
    LET upto_images ==
            check_document_title(doc) \o check_document_language(doc)
            \o check_tagged_pdf(doc) \o check_bookmarks(doc)
            \o check_images_alt_text(doc)
    IN  IF check_images_raises(doc) THEN upto_images
        ELSE upto_images \o check_color_contrast(doc)
             \o check_form_fields(doc) \o check_links(doc)
             \o check_heading_structure(doc) \o check_tab_order(doc)

\* analyze does not return: an exception of a check propagates to the caller
analyze_raises(doc) == check_images_raises(doc)

\* self.issues and self._counter when analyze returns or raises
analyze(doc, iss, ctr) == add_all(analyze_reset(iss, ctr), run_checks(doc))

\* self.doc[page_num] : page_num is 0-based, IndexError when out of range
has_page(doc, page_num) == page_num >= 0 /\ page_num < page_count(doc)

\* get_page_dimensions : width and height of the page rectangle
get_page_dimensions(doc, page_num) ==
    LET r == doc.pages[page_num + 1].rect
    IN  [width |-> r[3] - r[1], height |-> r[4] - r[2]]

\* _sev_rank
sev_rank(s) ==
    CASE s = "minor" -> 1 [] s = "moderate" -> 2 [] s = "serious" -> 3
      [] s = "critical" -> 4 [] OTHER -> 0

DefaultDeduction == 5

\* variant: a critical finding deducts 25 points
severity_deduction_steep(s) ==
    CASE s = "critical" -> 25 [] s = "serious" -> 12 [] s = "moderate" -> 6
      [] s = "minor" -> 2 [] OTHER -> DefaultDeduction

\* severity_deductions.get(sev, 5)
severity_deduction(s) ==
    CASE s = "critical" -> 20 [] s = "serious" -> 12 [] s = "moderate" -> 6
      [] s = "minor" -> 2 [] OTHER -> DefaultDeduction

\* the loop of get_score: worst severity per criterion
RECURSIVE worst_of(_, _)
worst_of(iss, worst) ==
    IF iss = <<>> THEN worst
    ELSE LET c == Head(iss).wcag_criterion
             sev == Head(iss).severity
         IN  worst_of(Tail(iss),
                 IF c \notin DOMAIN worst \/ sev_rank(sev) > sev_rank(worst[c])
                 THEN [k \in DOMAIN worst \cup {c} |-> IF k = c THEN sev ELSE worst[k]]
                 ELSE worst)

RECURSIVE sum_deductions(_, _)
sum_deductions(worst, cs) ==
    IF cs = {} THEN 0
    ELSE LET c == CHOOSE k \in cs : TRUE
         IN  severity_deduction(worst[c]) + sum_deductions(worst, cs \ {c})

EmptyWorst == [k \in {} |-> "minor"]

\* variant: every finding deducts, not every criterion
RECURSIVE sum_per_finding(_)
sum_per_finding(iss) ==
    IF iss = <<>> THEN 0
    ELSE severity_deduction(Head(iss).severity) + sum_per_finding(Tail(iss))

get_score_per_finding(iss) == Max2(0, 100 - sum_per_finding(iss))

get_score(iss) ==
    LET worst == worst_of(iss, EmptyWorst)
        total == sum_deductions(worst, DOMAIN worst)
    IN  Max2(0, 100 - total)

----------------------------------------------------------------------------
(* Remediator *)

\* variant: the title is written as given
fix_document_title_nostrip(doc, title) == [doc EXCEPT !.title = title]

\* variant: the metadata written back loses the catalog language
fix_document_title_drop_lang(doc, title) == [doc EXCEPT !.title = Strip(title), !.lang = None]

\* fix_document_title : meta["title"] = title.strip() ; set_metadata ; saveIncr
fix_document_title(doc, title) == [doc EXCEPT !.title = Strip(title)]

\* f"({lang})" : the PDF text-string object handed to xref_set_key
pdf_string(lang) == <<"(">> \o lang \o <<")">>

\* the text of a PDF text-string object, as a later xref_get_key reads it
pdf_to_text(obj) ==
    IF Len(obj) >= 2 /\ Head(obj) = "(" /\ obj[Len(obj)] = ")"
    THEN SubSeq(obj, 2, Len(obj) - 1)
    ELSE obj

\* fix_document_language : try xref_set_key(cat, "Lang", f"({lang})"), an
\* exception of xref_set_key is swallowed (written = FALSE) ; saveIncr
fix_document_language(doc, language, written) ==
    LET lang == Strip(language)
    IN  IF written
        THEN [doc EXCEPT !.lang = pdf_to_text(pdf_string(lang))]
        ELSE doc

----------------------------------------------------------------------------
(* Remediator: perform_ocr_and_tag *)

\* page.get_text("text").strip() is not empty
page_has_text(page) ==
    \E i \in 1..Len(text_spans(page.blocks)) :
        Strip(text_spans(page.blocks)[i].text) # <<>>

\* the loop that picks the largest image: index of the first image of maximal
\* positive area, 0 when there is none
RECURSIVE best_image(_, _, _, _)
best_image(imgs, i, best, best_area) ==
    IF i > Len(imgs) THEN best
    ELSE LET area == imgs[i].width * imgs[i].height
         IN  IF area > best_area THEN best_image(imgs, i + 1, i, area)
             ELSE best_image(imgs, i + 1, best, best_area)

\* str.strip() of a text given as lines: blank lines at both ends are dropped
RECURSIVE strip_lines(_)
strip_lines(lines) ==
    IF lines = <<>> THEN <<>>
    ELSE IF Strip(Head(lines)) = <<>> THEN strip_lines(Tail(lines))
    ELSE IF Strip(lines[Len(lines)]) = <<>> THEN strip_lines(SubSeq(lines, 1, Len(lines) - 1))
    ELSE lines

\* _extract_text_ocr : what pytesseract reads in the image, stripped; a failure
\* gives the empty text
extract_text_ocr(img) == strip_lines(img.ocr)

OcrFontSize == 11
OcrMargin == 36

\* the layout loop of _ocr_pages; y10 is y in tenths of a point; the result is
\* the lines written, each with the y at which it is placed
RECURSIVE ocr_layout(_, _, _)
ocr_layout(lines, y10, height) ==
    IF lines = <<>> THEN <<>>
    ELSE LET line == Strip(Head(lines))
         IN  IF line = <<>> THEN ocr_layout(Tail(lines), y10 + OcrFontSize * 12, height)
             ELSE IF y10 + OcrFontSize * 10 > (height - OcrMargin) * 10 THEN <<>>
             ELSE <<[text |-> line, y |-> y10 \div 10]>>
                  \o ocr_layout(Tail(lines), y10 + OcrFontSize * 14, height)

\* tw.write_text(page, render_mode=3) : the page with the lines as a text layer
write_text(page, placed) ==
    LET x0 == page.rect[1] + OcrMargin
        box(l) == <<x0, l.y - OcrFontSize, x0 + OcrFontSize * Len(l.text), l.y>>
        spans == [i \in 1..Len(placed) |->
                     [text |-> placed[i].text, size |-> OcrFontSize, flags |-> 0,
                      color |-> 0, bbox |-> box(placed[i])]]
        words == [i \in 1..Len(placed) |-> [rect |-> box(placed[i]), text |-> placed[i].text]]
    IN  IF placed = <<>> THEN page
        ELSE [page EXCEPT !.blocks = @ \o <<[type |-> 0, spans |-> spans]>>,
                          !.words = @ \o words]

\* one iteration of the page loop of _ocr_pages
ocr_page(page) ==
    LET best == best_image(page.images, 1, 0, 0)
        ocr_text == extract_text_ocr(page.images[best])
        height == page.rect[4] - page.rect[2]
        skip == [page |-> page, processed |-> 0]
    IN  IF page_has_text(page) THEN skip
        ELSE IF page.images = <<>> THEN skip
        ELSE IF best = 0 THEN skip
        ELSE IF ocr_text = <<>> THEN skip
        ELSE [page |-> write_text(page, ocr_layout(ocr_text, (page.rect[2] + OcrMargin) * 10,
                                                   height)),
              processed |-> 1]

RECURSIVE sum_processed(_, _)
sum_processed(doc, pn) ==
    IF pn > page_count(doc) THEN 0
    ELSE ocr_page(doc.pages[pn]).processed + sum_processed(doc, pn + 1)

\* _ocr_pages : nothing is done when pytesseract or PIL could not be imported
ocr_pages(doc, available) ==
    IF ~available THEN [doc |-> doc, pages_processed |-> 0]
    ELSE [doc |-> [doc EXCEPT !.pages = [pn \in 1..Len(doc.pages) |->
                                            ocr_page(doc.pages[pn]).page]],
          pages_processed |-> sum_processed(doc, 1)]

\* the tag _auto_tag decides for a text run
auto_tag_of(size, flags) ==
    LET is_bold == (flags \div BoldFlag) % 2 = 1
    IN  IF size >= 18 /\ is_bold THEN "H1"
        ELSE IF size >= 15 /\ is_bold THEN "H2"
        ELSE IF size >= 13 /\ is_bold THEN "H3"
        ELSE "P"

\* the text runs _auto_tag counts on one page: those with a non-blank text
tagged_runs(page) ==
    {i \in 1..Len(text_spans(page.blocks)) : Strip(text_spans(page.blocks)[i].text) # <<>>}

RECURSIVE auto_tag_from(_, _)
auto_tag_from(doc, pn) ==
    IF pn > page_count(doc) THEN 0
    ELSE Cardinality(tagged_runs(doc.pages[pn])) + auto_tag_from(doc, pn + 1)

\* _auto_tag : the number of text runs given a tag; nothing is written to
\* the document, and the call is made whether or not OCR is available
auto_tag(doc) == auto_tag_from(doc, 1)

\* perform_ocr_and_tag : OCR, tag count, then the document is saved to a
\* temporary file that replaces the original
perform_ocr_and_tag(doc, available) ==
    LET o == ocr_pages(doc, available)
    IN  [doc |-> o.doc, pages_ocrd |-> o.pages_processed,
         tags_added |-> auto_tag(o.doc)]

----------------------------------------------------------------------------
(* Web layer: the /analyze and /remediate routes of app.py *)

\* variant: the payload value is used without stripping
payload_value_raw(arg) == arg

\* payload.get("title", "").strip() and payload.get("language", "").strip()
payload_value(arg) == Strip(arg)

WebActions == {"fix_title", "fix_language", "fix_everything"}

\* the session entry written by the /analyze route
new_session(doc) ==
    LET iss == analyze(doc, <<>>, 0).issues
    IN  [sid |-> "s1", issues |-> iss, score |-> get_score(iss),
         title |-> doc.title, language |-> None]

\* the /remediate route up to its return: the response status, the file and
\* the session entry it leaves behind
remediate(doc, sess, action, arg, written) ==
    LET value == payload_value(arg)
        rejected == [status |-> "400", file |-> doc, session |-> sess]
        applied(d, s) ==
            LET iss == analyze(d, <<>>, 0).issues
            IN  [status |-> "200", file |-> d,
                 session |-> [s EXCEPT !.issues = iss, !.score = get_score(iss)]]
    IN  IF action = "fix_title"
        THEN IF value = <<>> THEN rejected
             ELSE applied(fix_document_title(doc, value), [sess EXCEPT !.title = value])
        ELSE IF action = "fix_language"
        THEN IF value = <<>> THEN rejected
             ELSE applied(fix_document_language(doc, value, written),
                          [sess EXCEPT !.language = value])
        ELSE rejected

----------------------------------------------------------------------------
(* Documents *)

PageRect == <<0, 0, 595, 842>>
TextBox == <<72, 90, 200, 102>>

Rgb(r, g, b) == r * 65536 + g * 256 + b     \* the colour integer of a text span

Black == Rgb(0, 0, 0)
Grey == Rgb(128, 128, 128)
LightGrey == Rgb(217, 217, 217)

EmptyPage ==
    [rect |-> PageRect, images |-> <<>>, blocks |-> <<>>, drawings |-> <<>>,
     widgets |-> <<>>, links |-> <<>>, words |-> <<>>, tabs |-> "null", faults |-> {}]

DarkSpan == [text |-> <<"a">>, size |-> 12, flags |-> 0, color |-> Black, bbox |-> TextBox]

TextBlock(spans) == [type |-> 0, spans |-> spans]
ImageBlock == [type |-> 1, spans |-> <<>>]

\* a page of normal dark text
TextPage ==
    [EmptyPage EXCEPT !.blocks = <<TextBlock(<<DarkSpan>>)>>,
                      !.words = <<[rect |-> TextBox, text |-> <<"a">>]>>]

ScanImage == [xref |-> 5, width |-> 595, height |-> 842, rect |-> PageRect]

\* a scanned page: one image covering the page, no extractable text
ScannedPage == [EmptyPage EXCEPT !.images = <<ScanImage>>, !.blocks = <<ImageBlock>>]

\* a scanned page that already carries a text layer
ScannedTextPage ==
    [TextPage EXCEPT !.images = <<ScanImage>>,
                     !.blocks = <<ImageBlock, TextBlock(<<DarkSpan>>)>>]

PageKinds == {TextPage, ScannedPage, ScannedTextPage}

Obj(x, s) == [xref |-> x, S |-> s, Alt |-> "null", K |-> "null"]

BaseObjs == <<Obj(4, "/P"), Obj(5, "null"), Obj(6, "/Figure")>>

Titles == {None} \cup StrsUpTo(Chars, MaxTitleLen)
TitleArgs == StrsUpTo(Chars, MaxTitleLen)
LangChars == {"a", ")", " "}
LangValues == {None, Null} \cup StrsUpTo(LangChars, 1)
LangArgs == StrsUpTo(Chars, 1)
StructRoots == {"null", "7 0 R"}

PageSeqs(kinds, n) == UNION {[1..k -> kinds] : k \in 1..n}

BaseDoc ==
    [title |-> <<"a">>, lang |-> <<"a">>, structTreeRoot |-> "null",
     markInfo |-> "null", toc |-> 0, pages |-> <<TextPage>>, objs |-> BaseObjs,
     faults |-> {}]

\* documents that differ in metadata, tagging, outline and page kinds
MetaDocs ==
    {[BaseDoc EXCEPT !.title = t, !.lang = l, !.structTreeRoot = r, !.toc = o, !.pages = ps] :
        t \in Titles, l \in {None, <<"a">>}, r \in StructRoots, o \in 0..MaxToc,
        ps \in PageSeqs(PageKinds, MaxPages)}

\* documents that differ in the catalog language entry
LangDocs ==
    {[BaseDoc EXCEPT !.title = t, !.lang = l, !.structTreeRoot = r, !.pages = ps] :
        t \in {None, <<"a">>}, l \in LangValues, r \in StructRoots,
        ps \in PageSeqs({TextPage}, MaxPages)}

MarkInfos == {"null", "<</Marked true>>"}

\* documents that differ in the two catalog entries of the tagged-document test
TagRoots == {"", "null", "7 0 R"}
TagMarkInfos == {"", "null", "<</Marked true>>", "<</Marked false>>"}

TagDocs ==
    {[BaseDoc EXCEPT !.structTreeRoot = r, !.markInfo = m, !.title = t, !.toc = o,
                     !.pages = ps] :
        r \in TagRoots, m \in TagMarkInfos, t \in {None, <<"a">>}, o \in 0..MaxToc,
        ps \in PageSeqs(PageKinds, MaxPages)}

ImageRect == <<200, 300, 350, 450>>
ImageSizes == {MinImageSize - 1, MinImageSize}
ImageXrefs == {5, 6}

ImageSet ==
    {[xref |-> x, width |-> w, height |-> h, rect |-> ImageRect] :
        x \in ImageXrefs, w \in ImageSizes, h \in ImageSizes}

SeqsUpTo(S, n) == UNION {[1..k -> S] : k \in 0..n}

SecondImagePage ==
    [TextPage EXCEPT !.images =
        <<[xref |-> 5, width |-> MinImageSize, height |-> MinImageSize, rect |-> ImageRect]>>]

\* documents that differ in tagging and in the images of their first page
ImageDocs ==
    {[BaseDoc EXCEPT !.structTreeRoot = r, !.markInfo = m,
                     !.pages = <<[TextPage EXCEPT !.images = imgs]>> \o tail] :
        r \in StructRoots, m \in MarkInfos, imgs \in SeqsUpTo(ImageSet, MaxImages),
        tail \in {<<>>, <<SecondImagePage>>}}

\* the child-content entry of a structure element that refers to object x
ObjRef(x) ==
    CASE x = 5 -> "<</Type/OBJR/Obj 5 0 R>>" [] x = 6 -> "<</Type/OBJR/Obj 6 0 R>>"
      [] OTHER -> "null"

\* object tables with a structure element of its own number: a Figure or a
\* paragraph, with or without alternative text and child-content reference
FigureObjs ==
    {<<Obj(4, "/P"), Obj(5, "null"), Obj(6, "null"), [xref |-> 8, S |-> s, Alt |-> a, K |-> k]>> :
        s \in {"/Figure", "/P"}, a \in {"null", "", "(A photo)"}, k \in {"null", ObjRef(5)}}
    \cup {BaseObjs}

FigureImage(x, size) == [xref |-> x, width |-> size, height |-> size, rect |-> ImageRect]

\* documents that differ in tagging, images and Figure elements
FigureDocs ==
    {[BaseDoc EXCEPT !.structTreeRoot = r, !.objs = o,
                     !.pages = <<[TextPage EXCEPT !.images = imgs]>>] :
        r \in StructRoots, o \in FigureObjs,
        imgs \in {<<FigureImage(5, MinImageSize)>>,
                  <<FigureImage(5, MinImageSize), FigureImage(6, MinImageSize)>>,
                  <<FigureImage(5, MinImageSize - 1)>>}}

TabValues == {"null", "/S", "/R"}

\* object tables without a heading element, and with one at a low, at the
\* last scanned and at the first unscanned object number
HeadingObjs ==
    {BaseObjs,
     <<Obj(4, "/H1"), Obj(5, "null")>>,
     <<Obj(4, "/P"), Obj(9, "/H")>>,
     <<Obj(4, "/P"), Obj(HeadingScanLimit - 1, "/H2"), Obj(HeadingScanLimit, "/P")>>,
     <<Obj(4, "/P"), Obj(HeadingScanLimit, "/H1")>>}

\* documents that differ in tagging, page count, tab orders and heading elements
StructDocs ==
    {[BaseDoc EXCEPT !.structTreeRoot = r, !.objs = o, !.pages = ps] :
        r \in StructRoots, o \in HeadingObjs,
        ps \in PageSeqs({[TextPage EXCEPT !.tabs = t] : t \in TabValues}, MaxPages)}

NormalSize == 12

TextSpan(s, f, c) == [text |-> <<"a">>, size |-> s, flags |-> f, color |-> c, bbox |-> TextBox]

SpanSet ==
    {TextSpan(s, f, c) : s \in {NormalSize, LargeBoldSize, LargeSize}, f \in {0, BoldFlag},
                         c \in {Black, Grey, LightGrey}}
    \cup {[TextSpan(NormalSize, 0, LightGrey) EXCEPT !.text = <<" ">>],
          TextSpan(MinTextSize - 1, 0, LightGrey)}

FarRect == <<0, 500, 595, 600>>
NoFill == <<>>            \* path.get("fill") is None

DrawingSeqs ==
    {<<>>,
     <<[fill |-> <<0, 0, 0>>, rect |-> PageRect]>>,
     <<[fill |-> <<850, 850, 850>>, rect |-> PageRect]>>,
     <<[fill |-> <<0, 0, 0>>, rect |-> FarRect]>>,
     <<[fill |-> NoFill, rect |-> PageRect]>>}

\* documents that differ in the text runs and fills of their pages
ContrastDocs ==
    {[BaseDoc EXCEPT !.pages =
        LET pg == [EmptyPage EXCEPT !.blocks = <<ImageBlock, TextBlock(spans)>>,
                                    !.drawings = ds]
        IN  IF two THEN <<pg, pg>> ELSE <<pg>>] :
        spans \in SeqsUpTo(SpanSet, MaxSpans), ds \in DrawingSeqs, two \in BOOLEAN}

LeftHalf == <<72, 90, 130, 102>>
RightHalf == <<135, 90, 200, 102>>
MarginBox == <<202, 90, 230, 102>>      \* begins 2pt right of TextBox
OutsideBox == <<203, 90, 230, 102>>     \* begins 3pt right of TextBox

Word(r, t) == [rect |-> r, text |-> t]

\* the words of a page around a link placed on TextBox
LinkWords ==
    {<<>>,
     <<Word(TextBox, <<"H", "e", "r", "e">>)>>,
     <<Word(LeftHalf, <<"C", "l", "i", "c", "k">>), Word(RightHalf, <<"h", "e", "r", "e">>)>>,
     <<Word(TextBox, <<"a">>)>>,
     <<Word(MarginBox, <<"a">>)>>,
     <<Word(OutsideBox, <<"a">>)>>,
     <<Word(TextBox, <<"m", "o", "r", "e">>), Word(MarginBox, <<"a">>)>>}

LinkSet ==
    {[uri |-> u, has_page |-> p, from |-> TextBox] :
        u \in {None, <<>>, <<"a">>}, p \in BOOLEAN}

\* documents that differ in the links and words of their pages
LinkDocs ==
    {[BaseDoc EXCEPT !.pages =
        LET pg == [EmptyPage EXCEPT !.links = ls, !.words = ws]
        IN  IF two THEN <<TextPage, pg>> ELSE <<pg>>] :
        ls \in SeqsUpTo(LinkSet, MaxLinks), ws \in LinkWords, two \in BOOLEAN}

\* documents with repeated text runs, the same on one or on two pages
DedupSpans ==
    {TextSpan(NormalSize, 0, c) : c \in {Black, Grey, LightGrey}}
    \cup {TextSpan(LargeSize, 0, LightGrey)}

DedupDocs ==
    {[BaseDoc EXCEPT !.pages =
        LET pg == [EmptyPage EXCEPT !.blocks = <<TextBlock(spans)>>, !.drawings = ds]
        IN  IF two THEN <<pg, pg>> ELSE <<pg>>] :
        spans \in SeqsUpTo(DedupSpans, MaxSpans),
        ds \in {<<>>, <<[fill |-> <<850, 850, 850>>, rect |-> PageRect]>>}, two \in BOOLEAN}

UnnamedWidget == [field_name |-> <<>>, field_label |-> <<>>, field_tooltip |-> <<>>]

HereLink == [uri |-> <<"a">>, has_page |-> FALSE, from |-> TextBox]

\* a page on which every per-page check has something to report: an image,
\* light text on white, an unnamed form field, a link reading "here" and a
\* tab order that is not /S
BusyPage ==
    [EmptyPage EXCEPT !.images = <<ScanImage>>,
                      !.blocks = <<ImageBlock, TextBlock(<<TextSpan(NormalSize, 0, LightGrey)>>)>>,
                      !.widgets = <<UnnamedWidget>>,
                      !.links = <<HereLink>>,
                      !.words = <<[rect |-> TextBox, text |-> <<"h", "e", "r", "e">>]>>,
                      !.tabs = "/R"]

FullPageKinds == {TextPage, BusyPage}

\* documents that give findings of every check, on several pages
FullDocs ==
    {[BaseDoc EXCEPT !.title = t, !.lang = l, !.structTreeRoot = r, !.toc = o, !.pages = ps] :
        t \in {None, <<"a">>}, l \in {None, <<"a">>}, r \in StructRoots, o \in 0..MaxToc,
        ps \in PageSeqs(FullPageKinds, MaxPages)}

\* documents without outline that give findings of every check
FrameDocs == {d \in FullDocs : d.toc = 0}

FrameArgs == StrsUpTo(Chars, 1)

\* lookups of a page that the document model may fail to satisfy
PageFaults == {{}, {"tabs"}, {"image_rects"}, {"widgets"}}

FaultPageKinds == {[BusyPage EXCEPT !.faults = f] : f \in PageFaults}

\* documents some of whose lookups raise
FaultDocs ==
    {[BaseDoc EXCEPT !.structTreeRoot = r, !.faults = f, !.pages = ps] :
        r \in StructRoots, f \in {{}, {"catalog"}},
        ps \in PageSeqs(FaultPageKinds, MaxPages)}

\* images with the text an OCR pass reads in them, line by line
OcrTexts == {<<>>, <<<<"a">>>>, <<<<"a">>, <<" ">>, <<"a">>, <<"a">>>>}

OcrImage(lines) ==
    [xref |-> 5, width |-> 595, height |-> 842, rect |-> PageRect, ocr |-> lines]

SmallImage == [xref |-> 6, width |-> 20, height |-> 20, rect |-> TextBox, ocr |-> <<<<"a", "a">>>>]

ShortRect == <<0, 0, 595, 100>>

\* scanned pages: one or two images, no text; a short page takes two lines only
OcrPages ==
    {[EmptyPage EXCEPT !.images = <<OcrImage(t)>>, !.blocks = <<ImageBlock>>] : t \in OcrTexts}
    \cup {[EmptyPage EXCEPT !.images = <<SmallImage, OcrImage(<<<<"a">>>>)>>,
                            !.blocks = <<ImageBlock, ImageBlock>>],
          [EmptyPage EXCEPT !.rect = ShortRect,
                            !.images = <<OcrImage(<<<<"a">>, <<" ">>, <<"a">>, <<"a">>>>)>>,
                            !.blocks = <<ImageBlock>>],
          [EmptyPage EXCEPT !.blocks = <<TextBlock(<<TextSpan(LargeSize, BoldFlag, Black),
                                                     TextSpan(NormalSize, 0, Black)>>)>>],
          TextPage, EmptyPage}

OcrDocs == {[BaseDoc EXCEPT !.pages = ps] : ps \in PageSeqs(OcrPages, MaxPages)}

\* documents uploaded to the web layer
WebDocs ==
    {[BaseDoc EXCEPT !.title = t, !.lang = l, !.structTreeRoot = r, !.pages = ps] :
        t \in {None, <<"a">>}, l \in {None, <<"a">>}, r \in StructRoots,
        ps \in PageSeqs({TextPage}, MaxPages)}

ScoreSeverities == Severities \cup {"unknown"}

Finding(k, c, sev) ==
    [issue_id |-> new_id(k), wcag_criterion |-> c, severity |-> sev, page |-> 0,
     title |-> "", auto_fixable |-> FALSE, etype |-> "", info |-> <<>>]

\* one finding of severity sev on each of the first n criteria
SeverityRun(n, sev) == [k \in 1..n |-> Finding(k, CheckOrder[k], sev)]

\* finding sequences handed to the scorer: a run followed by arbitrary findings
ScoreInputs ==
    {SeverityRun(n, sev) \o extra :
        n \in 0..Len(CheckOrder), sev \in ScoreSeverities,
        extra \in SeqsUpTo({Finding(0, c, s) : c \in Criteria, s \in ScoreSeverities}, MaxExtra)}

\* what the per-element checks hand to _add
StepProtos ==
    {Proto(c, sev, 1, "", FALSE, "", <<>>) :
        c \in {"1.1.1", "1.4.3", "4.1.2"}, sev \in Severities}

\* the issue list of an analysis run that has added n findings so far
LongRun(n) == [k \in 1..n |-> Finding(k, "1.1.1", "critical")]

----------------------------------------------------------------------------
(* State machine *)

NoDoc == [closed |-> TRUE]
NoScore == 0 - 1
NoFix == [op |-> "none", arg |-> <<>>, written |-> FALSE]
NoResult == [op |-> "none", status |-> "ok", a |-> 0, b |-> 0, act |-> "", arg |-> <<>>]
NoSession == [sid |-> "none"]
NoReport == <<>>
Reqs == 1..MaxReqs
Idle == [pc |-> "idle"]
NoReqs == [r \in Reqs |-> Idle]

InitAnalyzer ==
    /\ a_open = FALSE
    /\ a_doc = NoDoc
    /\ issues = <<>>
    /\ counter = 0
    /\ analysed = FALSE
    /\ returned = <<>>
    /\ score = NoScore
    /\ lastFix = NoFix
    /\ result = NoResult
    /\ ocr_available = FALSE
    /\ session = NoSession
    /\ report = NoReport
    /\ reqs = NoReqs

Init == file \in MetaDocs /\ InitAnalyzer

InitImages == file \in ImageDocs /\ InitAnalyzer

InitContrast == file \in ContrastDocs /\ InitAnalyzer

InitLang == file \in LangDocs /\ InitAnalyzer

InitTags == file \in TagDocs /\ InitAnalyzer

InitFull == file \in FullDocs /\ InitAnalyzer

InitFaulty == file \in FaultDocs /\ InitAnalyzer

InitFrame == file \in FrameDocs /\ InitAnalyzer

InitLinks == file \in LinkDocs /\ InitAnalyzer

InitDedup == file \in DedupDocs /\ InitAnalyzer

InitStruct == file \in StructDocs /\ InitAnalyzer

InitFigures == file \in FigureDocs /\ InitAnalyzer

InitWeb == file \in WebDocs /\ InitAnalyzer

InitOcr ==
    /\ file \in OcrDocs
    /\ ocr_available \in BOOLEAN
    /\ a_open = FALSE
    /\ a_doc = NoDoc
    /\ issues = <<>>
    /\ counter = 0
    /\ analysed = FALSE
    /\ returned = <<>>
    /\ score = NoScore
    /\ lastFix = NoFix
    /\ result = NoResult
    /\ session = NoSession
    /\ report = NoReport
    /\ reqs = NoReqs

\* an analyzer whose issue list is an arbitrary scorer input
InitScore ==
    /\ file = BaseDoc
    /\ a_open = TRUE
    /\ a_doc = BaseDoc
    /\ issues \in ScoreInputs
    /\ counter = Len(issues)
    /\ analysed = FALSE
    /\ returned = <<>>
    /\ score = NoScore
    /\ lastFix = NoFix
    /\ result = NoResult
    /\ ocr_available = FALSE
    /\ session = NoSession
    /\ report = NoReport
    /\ reqs = NoReqs

\* an analysis run in progress: just reset, or ManyFindings findings added
InitIds ==
    /\ file = BaseDoc
    /\ a_open = TRUE
    /\ a_doc = BaseDoc
    /\ counter \in {0, ManyFindings}
    /\ issues = LongRun(counter)
    /\ analysed = FALSE
    /\ returned = <<>>
    /\ score = NoScore
    /\ lastFix = NoFix
    /\ result = NoResult
    /\ ocr_available = FALSE
    /\ session = NoSession
    /\ report = NoReport
    /\ reqs = NoReqs

\* keep the last MaxRuns results returned since the document last changed
Push(rs, r) == IF Len(rs) < MaxRuns THEN Append(rs, r) ELSE Append(Tail(rs), r)

\* PDFAccessibilityAnalyzer(pdf_path)
Open ==
    /\ ~a_open
    /\ a_open' = TRUE
    /\ a_doc' = file
    /\ issues' = <<>>
    /\ counter' = 0
    /\ analysed' = FALSE
    /\ score' = NoScore
    /\ result' = NoResult
    /\ UNCHANGED <<file, returned, lastFix, ocr_available, session, report, reqs>>

\* analyzer.analyze()
Analyze ==
    /\ a_open
    /\ LET r == analyze(a_doc, issues, counter)
           raised == analyze_raises(a_doc)
       IN  /\ issues' = r.issues
           /\ counter' = r.counter
           /\ returned' = IF raised THEN returned ELSE Push(returned, r.issues)
           /\ analysed' = ~raised
           /\ result' = [NoResult EXCEPT !.op = "analyze",
                                         !.status = IF raised THEN "raised" ELSE "ok"]
    /\ score' = NoScore
    /\ UNCHANGED <<file, a_open, a_doc, lastFix, ocr_available, session, report, reqs>>

\* analyzer.get_score()
GetScore ==
    /\ a_open
    /\ score' = get_score(issues)
    /\ UNCHANGED <<file, a_open, a_doc, issues, counter, analysed, returned, lastFix,
                   result, ocr_available, session, report, reqs>>

\* analyzer.close()
Close ==
    /\ a_open
    /\ a_open' = FALSE
    /\ a_doc' = NoDoc
    /\ UNCHANGED <<file, issues, counter, analysed, returned, score, lastFix,
                   result, ocr_available, session, report, reqs>>

\* PDFRemediator(pdf_path).fix_document_title(title) ; close()
\* Callers close the analyzer handle before they mutate the file (app.py, tests).
FixTitle(title) ==
    /\ ~a_open
    /\ file' = fix_document_title(file, title)
    /\ lastFix' = [op |-> "fix_title", arg |-> title, written |-> TRUE]
    /\ analysed' = FALSE
    /\ returned' = <<>>
    /\ result' = NoResult
    /\ UNCHANGED <<a_open, a_doc, issues, counter, score, ocr_available, session, report, reqs>>

\* PDFRemediator(pdf_path).fix_document_language(language) ; close()
\* written: whether xref_set_key accepted the value or raised (and was swallowed)
FixLanguage(language, written) ==
    /\ ~a_open
    /\ file' = fix_document_language(file, language, written)
    /\ lastFix' = [op |-> "fix_language", arg |-> language, written |-> written]
    /\ analysed' = FALSE
    /\ returned' = <<>>
    /\ result' = NoResult
    /\ UNCHANGED <<a_open, a_doc, issues, counter, score, ocr_available, session, report, reqs>>

PageArgs == 0..MaxPages

\* analyzer.render_page(page_num) : reads the page and returns PNG bytes
RenderPage(page_num) ==
    /\ a_open
    /\ result' = [NoResult EXCEPT !.op = "render_page",
                                  !.status = IF has_page(a_doc, page_num) THEN "ok" ELSE "raised",
                                  !.a = page_num]
    /\ UNCHANGED <<file, a_open, a_doc, issues, counter, analysed, returned, score, lastFix,
                   ocr_available, session, report, reqs>>

\* analyzer.get_page_dimensions(page_num)
GetPageDimensions(page_num) ==
    /\ a_open
    /\ result' = IF has_page(a_doc, page_num)
                 THEN [NoResult EXCEPT !.op = "get_page_dimensions",
                                       !.a = get_page_dimensions(a_doc, page_num).width,
                                       !.b = get_page_dimensions(a_doc, page_num).height]
                 ELSE [NoResult EXCEPT !.op = "get_page_dimensions", !.status = "raised"]
    /\ UNCHANGED <<file, a_open, a_doc, issues, counter, analysed, returned, score, lastFix,
                   ocr_available, session, report, reqs>>

\* one _add call of a running check
AddFinding(p) ==
    /\ a_open
    /\ counter < MaxAdds \/ (counter >= ManyFindings /\ counter < ManyFindings + MaxAdds)
    /\ LET st == add([issues |-> issues, counter |-> counter], p)
       IN  /\ issues' = st.issues
           /\ counter' = st.counter
    /\ UNCHANGED <<file, a_open, a_doc, analysed, returned, score, lastFix,
                   result, ocr_available, session, report, reqs>>

NextRead == Open \/ Analyze \/ GetScore \/ Close

\* PDFRemediator(pdf_path).perform_ocr_and_tag() ; close()
OcrAndTag ==
    /\ ~a_open
    /\ LET r == perform_ocr_and_tag(file, ocr_available)
       IN  /\ file' = r.doc
           /\ result' = [NoResult EXCEPT !.op = "ocr_and_tag", !.a = r.pages_ocrd,
                                         !.b = r.tags_added]
    /\ lastFix' = [op |-> "ocr_and_tag", arg |-> <<>>, written |-> TRUE]
    /\ analysed' = FALSE
    /\ returned' = <<>>
    /\ UNCHANGED <<a_open, a_doc, issues, counter, score, ocr_available, session, report, reqs>>

\* POST /analyze : store the upload, analyse it, create the session
Upload ==
    /\ session = NoSession
    /\ report = NoReport
    /\ reqs = NoReqs
    /\ session' = new_session(file)
    /\ result' = [NoResult EXCEPT !.op = "upload", !.status = "302"]
    /\ UNCHANGED <<file, a_open, a_doc, issues, counter, analysed, returned, score, lastFix,
                   ocr_available, report, reqs>>

\* POST /remediate/<session_id> with payload {action, title | language}
Remediate(action, arg, written) ==
    /\ session # NoSession
    /\ LET r == remediate(file, session, action, arg, written)
       IN  /\ file' = r.file
           /\ session' = r.session
           /\ result' = [NoResult EXCEPT !.op = "remediate", !.status = r.status,
                                         !.act = action, !.arg = arg]
    /\ UNCHANGED <<a_open, a_doc, issues, counter, analysed, returned, score, lastFix,
                   ocr_available, report, reqs>>

NextWeb ==
    \/ Upload
    \/ \E action \in WebActions, arg \in TitleArgs, written \in BOOLEAN :
           Remediate(action, arg, written)

\* every call the analyzer offers
NextReads ==
    \/ Open
    \/ Analyze
    \/ GetScore
    \/ Close
    \/ \E n \in PageArgs : RenderPage(n)
    \/ \E n \in PageArgs : GetPageDimensions(n)

\* analyzer calls and the two metadata fixes, every catalog write accepted
Next ==
    \/ Open
    \/ Analyze
    \/ GetScore
    \/ Close
    \/ \E t \in TitleArgs : FixTitle(t)
    \/ \E l \in LangArgs : FixLanguage(l, TRUE)

\* the same calls, with a catalog write that xref_set_key may refuse
NextFix ==
    \/ Open
    \/ Analyze
    \/ GetScore
    \/ Close
    \/ \E t \in TitleArgs : FixTitle(t)
    \/ \E l \in LangArgs, w \in BOOLEAN : FixLanguage(l, w)

Spec == Init /\ [][Next]_vars

SpecLang == InitLang /\ [][NextFix]_vars

SpecImages == InitImages /\ [][NextRead]_vars

SpecContrast == InitContrast /\ [][NextRead]_vars

SpecTags == InitTags /\ [][NextRead]_vars

SpecFull == InitFull /\ [][NextRead]_vars

SpecIds == InitIds /\ [][\E p \in StepProtos : AddFinding(p)]_vars

SpecReads == InitFull /\ [][NextReads]_vars

SpecFaulty == InitFaulty /\ [][NextRead]_vars

SpecWeb == InitWeb /\ [][NextWeb]_vars

SpecOcr == InitOcr /\ [][NextRead \/ OcrAndTag]_vars

SpecScore == InitScore /\ [][GetScore]_vars

SpecFigures == InitFigures /\ [][NextRead]_vars

SpecLinks == InitLinks /\ [][NextRead]_vars

SpecDedup == InitDedup /\ [][NextRead]_vars

SpecStruct == InitStruct /\ [][NextRead]_vars

\* the analyzer calls and the two metadata fixes with short arguments
NextFrame ==
    \/ NextRead
    \/ \E t \in FrameArgs : FixTitle(t)
    \/ \E l \in FrameArgs, w \in BOOLEAN : FixLanguage(l, w)

SpecFrame == InitFrame /\ [][NextFrame]_vars

----------------------------------------------------------------------------
(* Report generator (pdf_engine/report_generator.py) *)

(* A text is a sequence of symbols: single characters for the texts of a   *)
(* finding, whole words for the fixed wording of the report.  The position *)
(* of a line on its page is left out: _ensure_space opens a new page when  *)
(* the line does not fit, so every line handed to _write is written.       *)

PAGE_W == 612
MARGIN == 54
CONTENT_W == PAGE_W - 2 * MARGIN

SymbolWidth == 100        \* font.text_length: the advance of one symbol, in points

text_length(s) == Len(s) * SymbolWidth

\* characters outside Latin-1, which the Base-14 fonts "helv" and "hebo" cannot encode
WideChars == {"U+25B8", "U+2014"}

MiddleDot == "U+00B7"

\* page.insert_text(..., fontname="helv" | "hebo") : the text string that
\* reaches the page; a character above 255 is written as the byte b7
insert_text(line) == [i \in 1..Len(line) |-> IF line[i] \in WideChars THEN MiddleDot ELSE line[i]]

\* text.split() : the words between runs of whitespace
RECURSIVE split_from(_, _)
split_from(s, cur) ==
    LET done == IF cur = <<>> THEN <<>> ELSE <<cur>>
    IN  IF s = <<>> THEN done
        ELSE IF IsSpace(Head(s)) THEN done \o split_from(Tail(s), <<>>)
        ELSE split_from(Tail(s), Append(cur, Head(s)))

split(s) == split_from(s, <<>>)

\* the loop of _wrap_text
RECURSIVE wrap_words(_, _, _)
wrap_words(words, current, max_width) ==
    IF words = <<>> THEN (IF current # <<>> THEN <<current>> ELSE <<>>)
    ELSE LET word == Head(words)
             candidate == Strip(current \o <<" ">> \o word)
         IN  IF text_length(candidate) > max_width /\ current # <<>>
             THEN <<current>> \o wrap_words(Tail(words), word, max_width)
             ELSE wrap_words(Tail(words), candidate, max_width)

\* _wrap_text : lines or [""]
wrap_text(text, max_width) ==
    LET lines == wrap_words(split(text), <<>>, max_width)
    IN  IF lines = <<>> THEN <<<<>>>> ELSE lines

\* _write : the lines inserted for one text
write(text, indent) ==
    LET lines == wrap_text(text, CONTENT_W - indent)
    IN  [i \in 1..Len(lines) |-> insert_text(lines[i])]

DigitChar(d) ==
    CASE d = 0 -> "0" [] d = 1 -> "1" [] d = 2 -> "2" [] d = 3 -> "3" [] d = 4 -> "4"
      [] d = 5 -> "5" [] d = 6 -> "6" [] d = 7 -> "7" [] d = 8 -> "8" [] d = 9 -> "9"

\* str(n) in an f-string
Str(n) == [i \in 1..Len(Digits(n)) |-> DigitChar(Digits(n)[i])]

\* sev.capitalize()
capitalize(sev) ==
    CASE sev = "critical" -> "Critical" [] sev = "serious" -> "Serious"
      [] sev = "moderate" -> "Moderate" [] sev = "minor" -> "Minor"
      [] OTHER -> "Unknown"

ReportSeverities == <<"critical", "serious", "moderate", "minor">>

\* sum(1 for i in issues if i.get("severity") == sev)
severity_count(iss, sev) == Cardinality({i \in 1..Len(iss) : iss[i].severity = sev})

Entry(kind, idx, lines) == [kind |-> kind, idx |-> idx, lines |-> lines]

NoIssuesText ==
    <<"No", " ", "accessibility", " ", "issues", " ", "were", " ", "detected.", " ",
      "This", " ", "PDF", " ", "appears", " ", "to", " ", "meet", " ", "WCAG", " ", "2.1",
      " ", "AA", " ", "requirements", " ", "for", " ", "the", " ", "checks", " ",
      "performed.">>

\* the body of the loop over the issues
issue_entries(issue, idx) ==
    LET sev == issue.severity
        page_label == IF issue.page = 0 THEN <<"Document-level">>
                      ELSE <<"Page", " ">> \o Str(issue.page)
    IN  <<Entry("heading", idx,
                write(Str(idx) \o <<".", " ", "[", capitalize(sev), "]", " ">> \o issue.title, 0)),
          Entry("wcag", idx,
                write(<<" ", " ", " ", "WCAG", " ", issue.wcag_criterion, " ", "U+2014", " ",
                        issue.wcag_title, " ", " ", "|", " ", " ">> \o page_label, 12))>>
        \o (IF issue.description # <<>>
            THEN <<Entry("description", idx, write(issue.description, 12))>> ELSE <<>>)
        \o (IF issue.remediation # <<>>
            THEN <<Entry("remediation", idx,
                         write(<<"How", " ", "to", " ", "fix:", " ">> \o issue.remediation, 12))>>
            ELSE <<>>)

RECURSIVE detailed_from(_, _)
detailed_from(iss, idx) ==
    IF idx > Len(iss) THEN <<>>
    ELSE issue_entries(iss[idx], idx) \o detailed_from(iss, idx + 1)

\* generate_accessibility_report : the texts written, in order
generate_accessibility_report(filename, iss, sc, title, pages) ==
    <<Entry("banner", 0, <<insert_text(<<"PDF", " ", "Accessibility", " ", "Report">>)>>),
      Entry("file", 0, write(<<"File:", " ">> \o filename, 0)),
      Entry("pages", 0, write(<<"Pages:", " ">> \o Str(pages), 0)),
      Entry("title", 0, write(<<"Document", " ", "Title:", " ">>
                              \o (IF title = None \/ title = <<>> THEN <<"(none)">> ELSE title), 0)),
      Entry("score", 0, write(<<"Accessibility", " ", "Score:", " ">> \o Str(sc)
                              \o <<" ", "/", " ", "100">>, 0)),
      Entry("summary", 0, write(<<"Issue", " ", "Summary">>, 0))>>
    \o [k \in 1..Len(ReportSeverities) |->
           Entry("count", k,
                 write(<<" ", " ", capitalize(ReportSeverities[k]) , ":", " ">>
                       \o Str(severity_count(iss, ReportSeverities[k])), 8))]
    \o <<Entry("total", 0, write(<<" ", " ", "Total:", " ">> \o Str(Len(iss)), 8)),
         Entry("detailed", 0, write(<<"Detailed", " ", "Issues">>, 0))>>
    \o (IF iss = <<>> THEN <<Entry("none", 0, write(NoIssuesText, 0))>>
        ELSE detailed_from(iss, 1))

\* the texts of a finding dict: plain, with a character outside Latin-1, with
\* a run of blanks, long enough to wrap, and empty
ReportTexts ==
    {[title |-> <<"a">>, description |-> <<"a", " ", "b">>, remediation |-> <<"b">>],
     [title |-> <<"a">>, description |-> <<"a">>, remediation |-> <<"a", " ", "U+25B8", " ", "b">>],
     [title |-> <<"a", " ", " ", "b">>, description |-> <<>>, remediation |-> <<>>],
     [title |-> <<"a", " ", "b", " ", "a", " ", "b">>, description |-> <<"b", "b", "b", "b", "b", "b">>,
      remediation |-> <<"a">>]}

ReportFindings ==
    {[severity |-> sev, page |-> pg, wcag_criterion |-> "2.4.2", wcag_title |-> "Page Titled",
      title |-> t.title, description |-> t.description, remediation |-> t.remediation] :
        sev \in Severities, pg \in {0, 1}, t \in ReportTexts}

\* the finding dicts of a caller, before any report is made
InitReport ==
    /\ file = BaseDoc
    /\ a_open = FALSE
    /\ a_doc = NoDoc
    /\ issues \in SeqsUpTo(ReportFindings, MaxFindings)
    /\ counter = Len(issues)
    /\ analysed = FALSE
    /\ returned = <<>>
    /\ score = NoScore
    /\ lastFix = NoFix
    /\ result = NoResult
    /\ ocr_available = FALSE
    /\ session = NoSession
    /\ report = NoReport
    /\ reqs = NoReqs

ReportScores == {62, 100}

\* generate_accessibility_report(filename, issues, score, metadata, page_count)
GenerateReport(sc, title) ==
    /\ report' = generate_accessibility_report(<<"f">>, issues, sc, title, 1)
    /\ UNCHANGED <<file, a_open, a_doc, issues, counter, analysed, returned, score, lastFix,
                   result, ocr_available, session, reqs>>

SpecReport == InitReport /\ [][\E sc \in ReportScores, t \in {None, <<"t">>} : GenerateReport(sc, t)]_vars

----------------------------------------------------------------------------
(* The /remediate route served by several threads (app.run: threaded server) *)

\* the payloads of the requests: a title, a blank title, a language code and
\* an unknown action
RacePayloads ==
    {[act |-> "fix_title", arg |-> <<"a">>], [act |-> "fix_title", arg |-> <<" ">>],
     [act |-> "fix_language", arg |-> <<"a">>], [act |-> "fix_everything", arg |-> <<>>]}

RaceDocs ==
    {[BaseDoc EXCEPT !.title = t, !.lang = l] : t \in {None, <<"a">>}, l \in {None, <<"a">>}}

InitRace == file \in RaceDocs /\ InitAnalyzer

\* lines 130-137: the session is looked up, the payload read and the
\* remediator opened; its handle holds the file as it is now
ReqOpen(r, payload) ==
    /\ session # NoSession
    /\ reqs[r].pc = "idle"
    /\ reqs' = [reqs EXCEPT ![r] = [pc |-> "opened", act |-> payload.act,
                                    arg |-> payload.arg, doc |-> file]]
    /\ UNCHANGED <<file, a_open, a_doc, issues, counter, analysed, returned, score, lastFix,
                   result, ocr_available, session, report>>

\* lines 138-157: the value is validated, the fix is applied to the handle and
\* saved incrementally, the session metadata is set and the handle closed.
\* saveIncr appends to the file as it is now a cross-reference section made
\* for the file as it was opened: when another request has saved in between,
\* its update may be kept (base = file) or lost (base = the handle's document).
ReqFix(r, written, keep) ==
    /\ reqs[r].pc = "opened"
    /\ LET action == reqs[r].act
           value == payload_value(reqs[r].arg)
           base == IF keep THEN file ELSE reqs[r].doc
       IN  IF action \notin {"fix_title", "fix_language"} \/ value = <<>>
           THEN /\ reqs' = [reqs EXCEPT ![r] = [pc |-> "done", status |-> "400"]]
                /\ UNCHANGED <<file, session>>
           ELSE /\ file' = IF action = "fix_title" THEN fix_document_title(base, value)
                           ELSE fix_document_language(base, value, written)
                /\ session' = IF action = "fix_title" THEN [session EXCEPT !.title = value]
                              ELSE [session EXCEPT !.language = value]
                /\ reqs' = [reqs EXCEPT ![r] = [pc |-> "fixed"]]
    /\ UNCHANGED <<a_open, a_doc, issues, counter, analysed, returned, score, lastFix,
                   result, ocr_available, report>>

\* lines 160-163: a new analyzer reads the file as it is now
ReqAnalyze(r) ==
    /\ reqs[r].pc = "fixed"
    /\ LET iss == analyze(file, <<>>, 0).issues
       IN  reqs' = [reqs EXCEPT ![r] = [pc |-> "analysed", issues |-> iss,
                                        score |-> get_score(iss)]]
    /\ UNCHANGED <<file, a_open, a_doc, issues, counter, analysed, returned, score, lastFix,
                   result, ocr_available, session, report>>

\* lines 165-175: the result is stored in the session and returned
ReqStore(r) ==
    /\ reqs[r].pc = "analysed"
    /\ session' = [session EXCEPT !.issues = reqs[r].issues, !.score = reqs[r].score]
    /\ reqs' = [reqs EXCEPT ![r] = [pc |-> "done", status |-> "200"]]
    /\ UNCHANGED <<file, a_open, a_doc, issues, counter, analysed, returned, score, lastFix,
                   result, ocr_available, report>>

NextRace ==
    \/ Upload
    \/ \E r \in Reqs, payload \in RacePayloads : ReqOpen(r, payload)
    \/ \E r \in Reqs, written \in BOOLEAN, keep \in BOOLEAN : ReqFix(r, written, keep)
    \/ \E r \in Reqs : ReqAnalyze(r)
    \/ \E r \in Reqs : ReqStore(r)

SpecRace == InitRace /\ [][NextRace]_vars

----------------------------------------------------------------------------
(* Properties of the metadata specification *)

IsBlank(t) == Strip(OrEmpty(t)) = <<>>

TitleFindingsWellFormed ==
    \A i \in 1..Len(issues) :
        issues[i].wcag_criterion = "2.4.2" =>
            /\ issues[i].auto_fixable
            /\ issues[i].severity = "serious"
            /\ issues[i].page = 0

\* C1 (as amended): a document whose title is absent, empty or only whitespace
\* gets exactly one 2.4.2 finding (serious, page 0, auto-fixable); a document
\* whose title has a non-whitespace character gets none.
T_C1 ==
    analysed =>
        /\ Count(issues, "2.4.2") = (IF IsBlank(file.title) THEN 1 ELSE 0)
        /\ TitleFindingsWellFormed

\* C1 (as stated): empty or absent title gives exactly one 2.4.2 finding,
\* every non-empty title gives none.
CE_C1 ==
    analysed =>
        /\ file.title \in {None, <<>>} => Count(issues, "2.4.2") = 1 /\ TitleFindingsWellFormed
        /\ file.title \notin {None, <<>>} => Count(issues, "2.4.2") = 0

W_C1 ==
    /\ analysed
    /\ file.title = <<" ">>
    /\ Count(issues, "2.4.2") = 1

T_C4 ==
    \A i, j \in 1..Len(returned) : returned[i] = returned[j]

W_C4 ==
    /\ Len(returned) >= 2
    /\ Len(returned[2]) >= 2
    /\ a_open
    /\ counter = Len(issues)

\* C10: a single-page document never gets a 2.4.5 finding; a document of two
\* or more pages gets exactly one (moderate, page 0) when it has no outline
\* entries and none when it has at least one.
T_C10 ==
    analysed =>
        /\ Count(issues, "2.4.5") =
               (IF page_count(file) >= 2 /\ file.toc = 0 THEN 1 ELSE 0)
        /\ \A i \in 1..Len(issues) :
               issues[i].wcag_criterion = "2.4.5" =>
                   issues[i].severity = "moderate" /\ issues[i].page = 0

W_C10 ==
    /\ analysed
    /\ page_count(file) = 1
    /\ file.toc = 0
    /\ Count(issues, "2.4.5") = 0

----------------------------------------------------------------------------
(* Properties of the scorer *)

CriteriaOf(iss) == {iss[i].wcag_criterion : i \in 1..Len(iss)}

\* the highest severity rank among the findings of criterion c
TopRank(iss, c) ==
    CHOOSE r \in 0..4 :
        /\ \E i \in 1..Len(iss) : iss[i].wcag_criterion = c /\ sev_rank(iss[i].severity) = r
        /\ \A i \in 1..Len(iss) : iss[i].wcag_criterion = c => sev_rank(iss[i].severity) <= r

RankDeduction(r) ==
    CASE r = 4 -> 20 [] r = 3 -> 12 [] r = 2 -> 6 [] r = 1 -> 2 [] OTHER -> 5

RECURSIVE TotalDeduction(_, _)
TotalDeduction(iss, cs) ==
    IF cs = {} THEN 0
    ELSE LET c == CHOOSE k \in cs : TRUE
         IN  RankDeduction(TopRank(iss, c)) + TotalDeduction(iss, cs \ {c})

\* C3: the score is max(0, 100 - total), total summing one deduction per
\* criterion that has a finding, that of its highest-severity finding
\* (critical 20, serious 12, moderate 6, minor 2, unrecognized 5); it is an
\* integer in 0..100, 100 for no findings and 80 for one critical finding.
T_C3 ==
    score # NoScore =>
        /\ score = Max2(0, 100 - TotalDeduction(issues, CriteriaOf(issues)))
        /\ score \in 0..100
        /\ issues = <<>> => score = 100
        /\ (Len(issues) = 1 /\ issues[1].severity = "critical") => score = 80

W_C3 ==
    /\ score = 0
    /\ Len(issues) > Cardinality(CriteriaOf(issues))
    /\ \E i \in 1..Len(issues) : issues[i].severity = "unknown"

----------------------------------------------------------------------------
(* Properties of the image check *)

ImageInfo(img) == <<img.xref, img.width, img.height>>

\* the 1.1.1 findings on page pn that describe an image with the given data
ImageFindings(pn, info) ==
    {i \in 1..Len(issues) :
        /\ issues[i].wcag_criterion = "1.1.1"
        /\ issues[i].page = pn
        /\ issues[i].info = info}

ImagesLike(pn, info) ==
    {k \in 1..Len(file.pages[pn].images) : ImageInfo(file.pages[pn].images[k]) = info}

BothSmall(img) == img.width < 16 /\ img.height < 16
BothLarge(img) == img.width >= 16 /\ img.height >= 16

\* the image is reported when checked: untagged document, or no Figure object at its number
Unverified(img) == ~is_tagged(file) \/ img.xref \notin collect_figure_alt_xrefs(file)

\* C5 (as amended): an image below 16 px in both width and height never
\* produces a 1.1.1 finding, whatever the tagging and alt-text status; every
\* other image, also one below 16 px in a single dimension, is checked and
\* produces one finding unless its alt text is verified.
T_C5 ==
    analysed =>
        \A pn \in 1..Len(file.pages) :
            \A k \in 1..Len(file.pages[pn].images) :
                LET img == file.pages[pn].images[k]
                IN  Cardinality(ImageFindings(pn, ImageInfo(img))) =
                        (IF BothSmall(img) \/ ~Unverified(img) THEN 0
                         ELSE Cardinality(ImagesLike(pn, ImageInfo(img))))

\* C5 (as stated): the 1.1.1 check applies only to images that are at least
\* 16 px in both width and height.
CE_C5 ==
    analysed =>
        \A pn \in 1..Len(file.pages) :
            \A k \in 1..Len(file.pages[pn].images) :
                LET img == file.pages[pn].images[k]
                IN  ~BothLarge(img) => ImageFindings(pn, ImageInfo(img)) = {}

W_C5 ==
    /\ analysed
    /\ \E k \in 1..Len(file.pages[1].images) :
           LET img == file.pages[1].images[k]
           IN  /\ img.width = 15
               /\ img.height = 16
               /\ ImageFindings(1, ImageInfo(img)) # {}
    /\ \E k \in 1..Len(file.pages[1].images) :
           LET img == file.pages[1].images[k]
           IN  BothSmall(img) /\ ImageFindings(1, ImageInfo(img)) = {}

HasText(page) ==
    \E k \in 1..Len(text_spans(page.blocks)) : Strip(text_spans(page.blocks)[k].text) # <<>>

\* C7: an image that covers a full page, with or without a text layer on the
\* page, produces no 1.1.1 "Image Missing Alternative Text" finding.
CE_C7 ==
    analysed =>
        \A pn \in 1..Len(file.pages) :
            \A k \in 1..Len(file.pages[pn].images) :
                file.pages[pn].images[k].rect = file.pages[pn].rect =>
                    ~ \E i \in 1..Len(issues) :
                          /\ issues[i].wcag_criterion = "1.1.1"
                          /\ issues[i].title = "Image Missing Alternative Text"
                          /\ issues[i].page = pn

\* C8: a page that consists of an image with no extractable text gets a
\* finding of element type "scanned_page" with auto_fixable = true; a page of
\* normal extractable text gets no "scanned_page" finding.
CE_C8 ==
    analysed =>
        \A pn \in 1..Len(file.pages) :
            LET page == file.pages[pn]
            IN  /\ (page.images # <<>> /\ ~HasText(page)) =>
                       \E i \in 1..Len(issues) :
                           /\ issues[i].etype = "scanned_page"
                           /\ issues[i].auto_fixable
                           /\ issues[i].page = pn
                /\ (page.images = <<>> /\ HasText(page)) =>
                       ~ \E i \in 1..Len(issues) :
                             issues[i].etype = "scanned_page" /\ issues[i].page = pn

----------------------------------------------------------------------------
(* Properties of the contrast check *)

SpanBackground(page, span) == background_at(span.bbox, get_background_fills(page.drawings))

\* a non-empty run of at least 8pt whose contrast ratio is below its required ratio
FailsContrast(page, span) ==
    /\ Strip(span.text) # <<>>
    /\ span.size >= 8
    /\ contrast_below(luminance(int_to_rgb(span.color)),
                      luminance(SpanBackground(page, span)),
                      IF span.size >= 18 \/ (span.size >= 14 /\ (span.flags \div 16) % 2 = 1)
                      THEN 30 ELSE 45)

ContrastFindings(pn, color, bg) ==
    {i \in 1..Len(issues) :
        /\ issues[i].wcag_criterion = "1.4.3"
        /\ issues[i].page = pn
        /\ issues[i].info = <<color, bg[1], bg[2], bg[3]>>}

\* C9: every non-empty run of at least 8pt whose contrast ratio is below its
\* required ratio (3.0 for large text, 4.5 otherwise) is covered by a 1.4.3
\* finding on its page for its colour pair, whatever runs precede it; a 12pt
\* run in (217,217,217) on white is reported, one in (0,0,0) on white is not.
CE_C9 ==
    analysed =>
        \A pn \in 1..Len(file.pages) :
            LET page == file.pages[pn]
                spans == text_spans(page.blocks)
            IN  /\ \A k \in 1..Len(spans) :
                       FailsContrast(page, spans[k]) =>
                           ContrastFindings(pn, spans[k].color,
                                            SpanBackground(page, spans[k])) # {}
                /\ ContrastFindings(pn, Black, White) = {}

----------------------------------------------------------------------------
(* Properties of the language check and of fix_document_language *)

OnlyParens(l) == \A i \in 1..Len(l) : l[i] \in {"(", ")"}

\* the catalog has no usable language: the key is missing, or its text is
\* empty, the word "null", or made of parentheses only
LangUnusable(l) == l = None \/ l = Null \/ OnlyParens(l)

LangFindingsWellFormed ==
    \A i \in 1..Len(issues) :
        issues[i].wcag_criterion = "3.1.1" =>
            /\ issues[i].auto_fixable
            /\ issues[i].severity = "serious"
            /\ issues[i].page = 0

\* C11 (as amended): analysis has exactly one 3.1.1 finding (serious, page 0,
\* auto-fixable) when the catalog language is absent, empty, the text "null"
\* or made of parentheses only, and no 3.1.1 finding for every other value,
\* a whitespace-only one included.
T_C11 ==
    analysed =>
        /\ Count(issues, "3.1.1") = (IF LangUnusable(file.lang) THEN 1 ELSE 0)
        /\ LangFindingsWellFormed

\* C11 (as stated): exactly one 3.1.1 finding when the language attribute is
\* empty or absent, none when it is non-empty.
CE_C11 ==
    analysed =>
        /\ file.lang \in {None, <<>>} =>
               Count(issues, "3.1.1") = 1 /\ LangFindingsWellFormed
        /\ file.lang \notin {None, <<>>} => Count(issues, "3.1.1") = 0

W_C11 ==
    /\ analysed
    /\ file.lang = <<")">>
    /\ Count(issues, "3.1.1") = 1

\* C12 (as stated): after fix_language(doc, C) with a non-empty C has returned,
\* the catalog language of the saved file is C and analysis of the saved file
\* has no 3.1.1 finding.
CE_C12 ==
    (lastFix.op = "fix_language" /\ lastFix.arg # <<>>) =>
        /\ file.lang = lastFix.arg
        /\ analysed => Count(issues, "3.1.1") = 0

----------------------------------------------------------------------------
(* Properties of the tagged-document test *)

\* the catalog exposes a non-empty structure-tree root or mark-info entry
ExposesTags(doc) ==
    \/ ~(doc.structTreeRoot = "" \/ doc.structTreeRoot = "null")
    \/ ~(doc.markInfo = "" \/ doc.markInfo = "null")

TagFindingsWellFormed ==
    \A i \in 1..Len(issues) :
        issues[i].wcag_criterion = "1.3.1" =>
            /\ ~issues[i].auto_fixable
            /\ issues[i].severity = "critical"
            /\ issues[i].page = 0

\* C13: a document is tagged iff its catalog has a non-empty structure-tree
\* root or a non-empty mark-info entry, and analysis has exactly one 1.3.1
\* finding (critical, page 0, not auto-fixable) iff the document is not tagged.
T_C13 ==
    /\ a_open => (is_tagged(a_doc) <=> ExposesTags(file))
    /\ analysed =>
        /\ Count(issues, "1.3.1") = (IF ExposesTags(file) THEN 0 ELSE 1)
        /\ TagFindingsWellFormed

W_C13 ==
    /\ analysed
    /\ file.structTreeRoot = "null"
    /\ file.markInfo = "<</Marked false>>"
    /\ Count(issues, "1.3.1") = 0

----------------------------------------------------------------------------
(* Properties of the finding sequence *)

ClaimedOrder ==
    <<"2.4.2", "3.1.1", "1.3.1", "2.4.5", "1.1.1", "1.4.3", "4.1.2", "2.4.4", "2.4.6",
      "1.3.2">>

Position(c) == CHOOSE k \in 1..Len(ClaimedOrder) : ClaimedOrder[k] = c

\* C14: in the sequence analyze returns no finding of a later check precedes a
\* finding of an earlier check (order 2.4.2, 3.1.1, 1.3.1, 2.4.5, 1.1.1, 1.4.3,
\* 4.1.2, 2.4.4, 2.4.6, 1.3.2), and the findings of one check have
\* non-decreasing page numbers.
T_C14 ==
    analysed =>
        \A i, j \in 1..Len(issues) :
            i < j =>
                /\ issues[i].wcag_criterion \in Criteria
                /\ Position(issues[i].wcag_criterion) <= Position(issues[j].wcag_criterion)
                /\ issues[i].wcag_criterion = issues[j].wcag_criterion =>
                       issues[i].page <= issues[j].page

W_C14 ==
    /\ analysed
    /\ \A c \in {"2.4.2", "3.1.1", "2.4.5", "1.1.1", "1.4.3", "4.1.2", "2.4.4", "2.4.6", "1.3.2"} :
           Count(issues, c) > 0
    /\ \E i, j \in 1..Len(issues) :
           /\ i < j
           /\ issues[i].wcag_criterion = "4.1.2" /\ issues[j].wcag_criterion = "4.1.2"
           /\ issues[i].page < issues[j].page

----------------------------------------------------------------------------
(* Properties of the finding identifiers *)

\* C15 (as stated): the k-th finding of a run carries k zero-padded to four
\* digits, all identifiers of a run have that same length, and each is below
\* its successor in string order.
CE_C15 ==
    /\ \A k \in 1..Len(issues) :
           /\ issues[k].issue_id = ZeroPad(Digits(k), IdWidth)
           /\ Len(issues[k].issue_id) = IdWidth
    /\ \A k \in 1..(Len(issues) - 1) :
           Len(issues[k].issue_id) = Len(issues[k + 1].issue_id)

----------------------------------------------------------------------------
(* Frame properties of the analyzer *)

\* what analyze returns on an analyzer that has made no call before
FreshResult(doc) == add_all([issues |-> <<>>, counter |-> 0], run_checks(doc)).issues

\* C16: no analyze, get_score, render_page or get_page_dimensions call changes
\* the document (title, language, tagging entries, pages), and what analyze
\* returns is what a fresh analyzer returns, whatever calls came before.
T_C16 ==
    [][/\ file' = file
       /\ a_open' /\ a_open => a_doc' = a_doc
       /\ analysed' => issues' = FreshResult(file')]_vars

W_C16 ==
    /\ analysed
    /\ Len(returned) = MaxRuns
    /\ score # NoScore
    /\ result.op = "render_page" /\ result.status = "ok"
    /\ Len(issues) > 2

----------------------------------------------------------------------------
(* Properties of the checks when lookups fail *)

\* the document with every failing lookup replaced by an absent value
AsAbsent(doc) ==
    [doc EXCEPT
        !.faults = {},
        !.lang = IF "catalog" \in doc.faults THEN None ELSE @,
        !.structTreeRoot = IF "catalog" \in doc.faults THEN "null" ELSE @,
        !.markInfo = IF "catalog" \in doc.faults THEN "null" ELSE @,
        !.pages = [pn \in 1..Len(doc.pages) |->
                      [doc.pages[pn] EXCEPT
                          !.faults = {},
                          !.tabs = IF "tabs" \in doc.pages[pn].faults THEN "null" ELSE @,
                          !.widgets = IF "widgets" \in doc.pages[pn].faults THEN <<>> ELSE @]]]

\* C17 (as stated): whichever lookups fail, analyze does not raise and returns
\* the findings of all ten checks over all pages, each failed lookup counting
\* as absent.
CE_C17 ==
    result.op = "analyze" =>
        /\ result.status = "ok"
        /\ issues = FreshResult(AsAbsent(file))

----------------------------------------------------------------------------
(* Properties of the /remediate route *)

OnlyWhitespace(s) == \A i \in 1..Len(s) : s[i] = " "

\* an unknown action, or an empty or whitespace-only title or language code
InvalidRequest(action, arg) ==
    \/ action \notin {"fix_title", "fix_language"}
    \/ OnlyWhitespace(arg)

\* C18: a remediation request with an unknown action or with an empty or
\* whitespace-only title or language code is answered with an error (400) and
\* leaves the document file and the session's findings, score and metadata as
\* they were.
T_C18 ==
    [][(result'.op = "remediate" /\ InvalidRequest(result'.act, result'.arg)) =>
           /\ result'.status = "400"
           /\ file' = file
           /\ session' = session]_vars

W_C18 ==
    /\ result.op = "remediate"
    /\ result.act = "fix_title"
    /\ result.arg = <<" ", " ">>
    /\ result.status = "400"
    /\ file.title = None
    /\ Count(session.issues, "2.4.2") = 1

----------------------------------------------------------------------------
(* Properties of perform_ocr_and_tag *)

\* C19 (as stated): without the OCR capability perform_ocr_and_tag raises
\* nothing, returns zero pages processed and zero tags classified, and leaves
\* the document as it was.
CE_C19 ==
    [][(result'.op = "ocr_and_tag" /\ ~ocr_available) =>
           /\ result'.status = "ok"
           /\ result'.a = 0
           /\ result'.b = 0
           /\ file' = file]_vars

----------------------------------------------------------------------------
(* Properties of the two metadata mutations *)

----------------------------------------------------------------------------
(* Properties of the score under the metadata fixes *)

\* the score of a freshly analysed document
ScoreOf(doc) == get_score(FreshResult(doc))

WithMetadata(doc, t, l) == [doc EXCEPT !.title = t, !.lang = l]

\* the document scores higher with title t and language l than with neither
ScoresHigher(doc, t, l) ==
    /\ ScoreOf(WithMetadata(doc, t, l)) > ScoreOf(WithMetadata(doc, None, None))
    /\ ScoreOf(WithMetadata(doc, t, l)) > ScoreOf(WithMetadata(doc, <<>>, <<>>))

\* the step is a fix_title or fix_language call that has returned
FixReturned(op) == lastFix' # lastFix /\ lastFix'.op = op

\* C21 (as amended): of two documents that differ only in that one has a title
\* with a non-whitespace character and a usable language and the other has
\* neither, the one with metadata scores strictly higher (compared for every
\* document when its first fix is made); a fix that leaves
\* such a title or such a language where there was none strictly increases
\* the score, also from a score of 0 (the floor never hides the improvement).
T_C21 ==
    [][/\ (lastFix = NoFix /\ file' # file) =>
              \A t \in Titles, l \in LangValues :
                  (~IsBlank(t) /\ ~LangUnusable(l)) => ScoresHigher(file, t, l)
       /\ (IsBlank(file.title) /\ ~IsBlank(file'.title)) => ScoreOf(file') > ScoreOf(file)
       /\ (LangUnusable(file.lang) /\ ~LangUnusable(file'.lang)) =>
              ScoreOf(file') > ScoreOf(file)]_vars

\* C21 (as stated): the document with a non-empty title and language scores
\* strictly higher than the one with neither, and fix_title or fix_language
\* on a document that lacks the value strictly increases its score.
CE_C21 ==
    [][/\ (lastFix = NoFix /\ file' # file) =>
              \A t \in Titles, l \in LangValues :
                  (t \notin {None, <<>>} /\ l \notin {None, <<>>}) => ScoresHigher(file, t, l)
       /\ (FixReturned("fix_title") /\ file.title \in {None, <<>>}) =>
              ScoreOf(file') > ScoreOf(file)
       /\ (FixReturned("fix_language") /\ file.lang \in {None, <<>>}) =>
              ScoreOf(file') > ScoreOf(file)]_vars

\* a title written where there was none lifts the score of the document with
\* the worst findings from 0 to 4
W_C21 ==
    /\ lastFix.op = "fix_title"
    /\ ~IsBlank(file.title)
    /\ ScoreOf(WithMetadata(file, None, file.lang)) = 0
    /\ analysed
    /\ score = 4

----------------------------------------------------------------------------
(* Properties of the report generator *)

\* the words of the lines an entry of the report holds
RECURSIVE WordsOfLines(_)
WordsOfLines(lines) ==
    IF lines = <<>> THEN <<>> ELSE split(Head(lines)) \o WordsOfLines(Tail(lines))

\* the sequence of words ws occurs in the sequence of words hay
HasWords(hay, ws) ==
    \E i \in 0..(Len(hay) - Len(ws)) : SubSeq(hay, i + 1, i + Len(ws)) = ws

\* the positions in the report of the entries of one kind and index
EntriesOf(kind, idx) == {e \in 1..Len(report) : report[e].kind = kind /\ report[e].idx = idx}

\* some entry of that kind and index shows the text, up to spacing and line breaks
Shows(kind, idx, text) ==
    \E e \in EntriesOf(kind, idx) : HasWords(WordsOfLines(report[e].lines), split(text))

\* C22 (as stated): the report shows the title, description and remediation
\* text of every supplied finding, in input order, a count per severity equal
\* to the number of supplied findings of that severity and a Total equal to
\* the number of supplied findings; for an empty sequence it shows the "No
\* accessibility issues" message instead.
CE_C22 ==
    report # NoReport =>
        /\ \A k \in 1..Len(ReportSeverities) :
               Shows("count", k, <<capitalize(ReportSeverities[k]), ":", " ">>
                                 \o Str(severity_count(issues, ReportSeverities[k])))
        /\ Shows("total", 0, <<"Total:", " ">> \o Str(Len(issues)))
        /\ (issues = <<>>) <=> Shows("none", 0, <<"No", " ", "accessibility", " ", "issues">>)
        /\ \A i \in 1..Len(issues) :
               /\ Shows("heading", i, issues[i].title)
               /\ Shows("description", i, issues[i].description) \/ issues[i].description = <<>>
               /\ Shows("remediation", i, issues[i].remediation) \/ issues[i].remediation = <<>>
        /\ \A i, j \in 1..Len(issues) :
               i < j => \A e \in EntriesOf("remediation", i) \cup EntriesOf("heading", i) :
                            \A f \in EntriesOf("heading", j) : e < f

----------------------------------------------------------------------------
(* Properties of the alternative-text lookup *)

\* some structure element typed Figure carries a non-empty alternative text
\* and a child-content reference to the image
CoveredByFigure(doc, img) ==
    \E i \in 1..Len(doc.objs) :
        /\ doc.objs[i].S = "/Figure"
        /\ doc.objs[i].Alt \notin {"", "null"}
        /\ doc.objs[i].K = ObjRef(img.xref)

\* C23 (as stated): in a tagged document an image of at least 16x16 px has a
\* 1.1.1 finding exactly when no Figure element with a non-empty alternative
\* text covers it.
CE_C23 ==
    (analysed /\ is_tagged(file)) =>
        \A pn \in 1..Len(file.pages) :
            \A k \in 1..Len(file.pages[pn].images) :
                LET img == file.pages[pn].images[k]
                IN  BothLarge(img) =>
                        (ImageFindings(pn, ImageInfo(img)) # {} <=> ~CoveredByFigure(file, img))

----------------------------------------------------------------------------
(* Properties of the heading and tab-order checks *)

HasNotTaggedFinding ==
    \E i \in 1..Len(issues) :
        issues[i].wcag_criterion = "1.3.1" /\ issues[i].title = "PDF is Not Tagged"

\* C24: no analysis result has both the 1.3.1 "not tagged" finding and a 2.4.6
\* or 1.3.2 finding, and an untagged document has no 2.4.6 and no 1.3.2
\* finding, whatever its page count, heading tags and tab orders.
T_C24 ==
    analysed =>
        /\ HasNotTaggedFinding => (Count(issues, "2.4.6") = 0 /\ Count(issues, "1.3.2") = 0)
        /\ ~ExposesTags(file) => (Count(issues, "2.4.6") = 0 /\ Count(issues, "1.3.2") = 0)

W_C24 ==
    /\ analysed
    /\ ~ExposesTags(file)
    /\ page_count(file) = 2
    /\ file.pages[2].tabs = "/R"
    /\ file.objs = BaseObjs
    /\ Count(issues, "1.3.1") = 1
    /\ Count(issues, "2.4.6") = 0
    /\ Count(issues, "1.3.2") = 0

\* some object of the document carries a heading tag
CarriesHeading(doc) ==
    \E i \in 1..Len(doc.objs) :
        doc.objs[i].S \in {"/H", "/H1", "/H2", "/H3", "/H4", "/H5", "/H6"}

\* C25 (as stated): a tagged document of two or more pages gets exactly one
\* 2.4.6 finding (moderate, page 0) when no element carries a heading tag and
\* none when some element does, wherever it sits in the object table; a tagged
\* single-page document gets none.
CE_C25 ==
    (analysed /\ ExposesTags(file)) =>
        /\ Count(issues, "2.4.6") =
               (IF page_count(file) >= 2 /\ ~CarriesHeading(file) THEN 1 ELSE 0)
        /\ \A i \in 1..Len(issues) :
               issues[i].wcag_criterion = "2.4.6" =>
                   issues[i].severity = "moderate" /\ issues[i].page = 0

\* the pages whose tab-order entry is present and is not /S, in page order
RECURSIVE OtherTabPages(_, _)
OtherTabPages(doc, pn) ==
    IF pn > Len(doc.pages) THEN <<>>
    ELSE (IF doc.pages[pn].tabs \in {"null", "/S"} THEN <<>> ELSE <<pn>>)
         \o OtherTabPages(doc, pn + 1)

\* the 1.3.2 findings, in the order analyze returned them
TabFindings == SelectSeq(issues, LAMBDA f : f.wcag_criterion = "1.3.2")

\* C28: in a tagged document the 1.3.2 findings are moderate and are, in page
\* order, one for each page whose tab-order attribute is present and is not
\* /S; pages without the attribute or with /S have none.
T_C28 ==
    (analysed /\ ExposesTags(file)) =>
        /\ [i \in 1..Len(TabFindings) |-> TabFindings[i].page] = OtherTabPages(file, 1)
        /\ \A i \in 1..Len(TabFindings) : TabFindings[i].severity = "moderate"

W_C28 ==
    /\ analysed
    /\ ExposesTags(file)
    /\ page_count(file) = 2
    /\ file.pages[1].tabs = "/S"
    /\ file.pages[2].tabs = "/R"
    /\ Count(issues, "1.3.2") = 1
    /\ TabFindings[1].page = 2

----------------------------------------------------------------------------
(* Properties of the contrast findings *)

\* C26: analyze never returns two 1.4.3 findings with the same page, text
\* colour and background colour; the same colour pair on two pages may give
\* one finding on each.
T_C26 ==
    analysed =>
        \A i, j \in 1..Len(issues) :
            (/\ i < j
             /\ issues[i].wcag_criterion = "1.4.3"
             /\ issues[j].wcag_criterion = "1.4.3") =>
                (issues[i].page # issues[j].page \/ issues[i].info # issues[j].info)

\* two identical light runs on each of two pages give one finding per page
W_C26 ==
    /\ analysed
    /\ page_count(file) = 2
    /\ text_spans(file.pages[1].blocks)
           = <<TextSpan(NormalSize, 0, LightGrey), TextSpan(NormalSize, 0, LightGrey)>>
    /\ Count(issues, "1.4.3") = 2
    /\ \E i, j \in 1..Len(issues) :
           /\ issues[i].wcag_criterion = "1.4.3" /\ issues[i].page = 1
           /\ issues[j].wcag_criterion = "1.4.3" /\ issues[j].page = 2
           /\ issues[i].info = issues[j].info

----------------------------------------------------------------------------
(* Properties of the link check *)

\* the rectangles overlap in an area
Overlaps(r, q) ==
    /\ Max2(r[1], q[1]) < Min2(r[3], q[3])
    /\ Max2(r[2], q[2]) < Min2(r[4], q[4])

Grown(r, d) == <<r[1] - d, r[2] - d, r[3] + d, r[4] + d>>

\* the words of the page whose boxes overlap the link rectangle grown by 3pt,
\* joined by single blanks
RECURSIVE DisplayWords(_, _)
DisplayWords(words, link) ==
    IF words = <<>> THEN <<>>
    ELSE (IF Overlaps(Head(words).rect, Grown(link.from, 3))
          THEN (IF DisplayWords(Tail(words), link) = <<>> THEN Head(words).text
                ELSE Head(words).text \o <<" ">> \o DisplayWords(Tail(words), link))
          ELSE DisplayWords(Tail(words), link))

DisplayText(page, link) == Lower(Strip(DisplayWords(page.words, link)))

HasTarget(link) == link.uri \notin {None, <<>>} \/ link.has_page

\* the links of a page that have a target and an empty or generic display text
VagueLinks(page) ==
    {k \in 1..Len(page.links) :
        /\ HasTarget(page.links[k])
        /\ \/ DisplayText(page, page.links[k]) = <<>>
           \/ DisplayText(page, page.links[k]) \in GENERIC_LINK_TEXTS}

LinkFindings(pn) ==
    {i \in 1..Len(issues) : issues[i].wcag_criterion = "2.4.4" /\ issues[i].page = pn}

\* C27: every page has as many 2.4.4 findings, all moderate, as it has links
\* with a target whose display text (the words overlapping the link rectangle
\* grown by 3pt, trimmed and lowercased) is empty or a generic phrase; a link
\* with descriptive text or without URI and page target has none.
T_C27 ==
    analysed =>
        /\ \A pn \in 1..Len(file.pages) :
               Cardinality(LinkFindings(pn)) = Cardinality(VagueLinks(file.pages[pn]))
        /\ \A i \in 1..Len(issues) :
               issues[i].wcag_criterion = "2.4.4" =>
                   issues[i].severity = "moderate" /\ issues[i].page \in 1..Len(file.pages)

\* a targeted link whose words read "more a" with the word in the margin, next
\* to a link without target: no finding
W_C27 ==
    /\ analysed
    /\ page_count(file) = 1
    /\ file.pages[1].words = <<Word(TextBox, <<"m", "o", "r", "e">>), Word(MarginBox, <<"a">>)>>
    /\ Len(file.pages[1].links) = 2
    /\ HasTarget(file.pages[1].links[1])
    /\ ~HasTarget(file.pages[1].links[2])
    /\ Count(issues, "2.4.4") = 0

----------------------------------------------------------------------------
(* Frame properties of the two metadata fixes *)

\* criterion, severity and page of the findings of every criterion but c
Others(iss, c) ==
    LET kept == SelectSeq(iss, LAMBDA f : f.wcag_criterion # c)
    IN  [i \in 1..Len(kept) |-> <<kept[i].wcag_criterion, kept[i].severity, kept[i].page>>]

\* C29: fix_title changes the title only, and analysis after it returns for
\* every criterion but 2.4.2 the findings (criterion, severity, page, in order)
\* it returned before; fix_language changes the language only and the 3.1.1
\* findings only; the two fixes give the same document in either order.
T_C29 ==
    [][/\ (file' # file /\ lastFix'.op = "fix_title") =>
              /\ [file' EXCEPT !.title = file.title] = file
              /\ Others(FreshResult(file'), "2.4.2") = Others(FreshResult(file), "2.4.2")
       /\ (file' # file /\ lastFix'.op = "fix_language") =>
              /\ [file' EXCEPT !.lang = file.lang] = file
              /\ Others(FreshResult(file'), "3.1.1") = Others(FreshResult(file), "3.1.1")
       /\ file' # file =>
              \A t \in FrameArgs, l \in FrameArgs, w \in BOOLEAN :
                  fix_document_title(fix_document_language(file, l, w), t)
                      = fix_document_language(fix_document_title(file, t), l, w)]_vars

\* a title written to an untagged two-page document with findings of other
\* criteria, analysed after the fix
W_C29 ==
    /\ lastFix.op = "fix_title"
    /\ file.title = <<"a">>
    /\ file.lang = None
    /\ analysed
    /\ Count(issues, "2.4.2") = 0
    /\ Count(issues, "3.1.1") = 1
    /\ Count(issues, "1.1.1") = 2
    /\ Count(issues, "4.1.2") = 2

----------------------------------------------------------------------------
(* Properties of the /remediate route under concurrent requests *)

\* the request holds the file open for its fix, or has saved its fix and not
\* yet analysed the file again
AtWork(r) == reqs[r].pc \in {"opened", "fixed"}

Applied(r) == reqs[r].pc = "done" /\ reqs[r].status = "200"

\* C30 (as stated): no two /remediate requests of a session work on the file
\* at overlapping times, and once all requests have completed the findings and
\* score stored in the session are those of an analysis of the file as it is.
CE_C30 ==
    /\ \A r1, r2 \in Reqs : (AtWork(r1) /\ AtWork(r2)) => r1 = r2
    /\ ((\A r \in Reqs : reqs[r].pc = "done") /\ (\E r \in Reqs : Applied(r))) =>
           /\ session.issues = FreshResult(file)
           /\ session.score = get_score(FreshResult(file))

====
